---- MODULE Spec2Model ----
(***************************************************************************)
(* Campaign delivery pipeline of the email-management server:              *)
(* DatabaseMonitorService (two cron cadences), CampaignScheduler and the   *)
(* CampaignService operations that touch campaigns, emailSend rows         *)
(* (DeliveryAttempts) and bulkEmailJob rows.                               *)
(*                                                                         *)
(* Every store write awaited by the source is one atomic step of the async *)
(* handler that issues it, together with the reads that precede it; the    *)
(* handlers interleave only at those awaits.  Time is in minutes.          *)
(*                                                                         *)
(* Spec        the monitor alone, callbacks of a cadence overlapping       *)
(* SpecOps     one callback per cadence, the CampaignScheduler poll,       *)
(*             CampaignService requests and the emailQueue worker          *)
(* SpecDomains the monitor over domains that pass or fail validation       *)
(* SpecGuard   validateDomainForSending as a function of its inputs        *)
(* SpecSeq     the monitor's callbacks one after another, updateCampaign   *)
(* SpecStall   the 1-minute callback, sendCampaign and the worker, fair    *)
(* SpecBatches one 30-second callback over lists of up to two batches      *)
(* SpecRequests one 30-second callback and the requests that delete,       *)
(*             trigger and schedule a campaign                             *)
(* SpecRetry   one 30-second callback, retryFailedEmails and the worker    *)
(* SpecAdapter one NodemailerProvider shared by two callers of send        *)
(* SpecCounters callbacks one after another, counter updates may fail, fair *)
(* SpecLists   SpecBatches with the empty list among the lists             *)
(* SpecHeal    callbacks one after another, two batches, a restart, fair   *)
(* SpecProviders the monitor's sends, each on a provider of its own         *)
(* SpecCleanup SpecRetry over one address and a clock that outlasts the     *)
(*             longest backoff, fair                                       *)
(***************************************************************************)
EXTENDS Integers, Sequences, FiniteSets, TLC

\* ------------------------------------------------------------------ bounds
NumEmails == 2          \* valid recipients of the campaign's list
OpsEmails == 1          \* the same, where requests and the queue worker take part
MaxEmails == 12         \* addresses of the longest list: one batch and two more
MaxSends == 2           \* calls of send that one caller of the adapter makes
MaxCoolTime == 7        \* the clock stops here where the adapter is exercised alone
MaxOpenSends == 2       \* sendSingleEmail calls of a long batch past their lookup at a time
MaxTicks == 2           \* cron callbacks of one cadence that may be in flight
MaxTime == 30           \* the clock stops here
MaxRestarts == 1        \* restarts of the server process in one run
MaxLongTime == 240      \* the clock stops here where the backoff of a third retry is awaited
MaxActive == 2          \* cron callbacks in flight at one time, over both cadences
MaxDup == 2             \* emailSend rows the store may hold for one (campaign, email)
MaxRetries == 4         \* retry counters are not pushed beyond this value
MaxApiCalls == 1        \* CampaignService requests issued in one run
MaxPast == 2            \* earlier campaigns of the domain that validation sums over
GuardNow == 50000       \* the clock when validateDomainForSending is exercised alone

\* ------------------------------------------------------- program constants
MAX_RETRY_ATTEMPTS == 3
RETRY_DELAY_BASE == 15
BATCH_SIZE == 10
MAX_RETRIES == 3
COOLING_PERIOD == 5
PollTake == 5
STALL_MINUTES == 30
STALE_RETRY_MINUTES == 10
RETRY_WINDOW_MINUTES == 1440
WARMUP_EXIT_VOLUME == 1000
DEFAULT_DAILY_LIMIT == 100
WARMUP_WINDOW_MINUTES == 43200
JOB_ATTEMPTS == 3

Null == -1
Campaigns == {1}
TickSteps == {30}
SchedTime == 30

FastProcs == 1..MaxTicks
SlowProcs == (MaxTicks + 1)..(2 * MaxTicks)
Procs == FastProcs \cup SlowProcs
\* one callback of each monitor cadence, and the CampaignScheduler's minute callback
SoloProcs == {1, MaxTicks + 1}
SchedProcs == {2 * MaxTicks + 1}
AllProcs == Procs \cup SchedProcs

VARIABLES
  now,         \* Date.now(), in minutes
  domain,      \* the sending domain's row
  env,         \* process.env: which provider API keys are set
  campaign,    \* campaign rows: status, scheduledAt, sentAt
  sends,       \* emailSend rows of each (campaign, email), in insertion order
  bulkJob,     \* bulkEmailJob row of each campaign
  isRunning,   \* DatabaseMonitorService.isRunning
  proc,        \* one record per cron callback in flight
  sendSt,      \* per callback, the sendSingleEmail calls it is awaiting
  jobs,        \* emailQueue: the sendEmail jobs waiting for the worker
  worker,      \* the emailQueue worker's job in progress
  api,         \* the CampaignService request in progress
  list,        \* the number of valid emails in each campaign's list
  guard,       \* validateDomainForSending: the domain's earlier campaigns and the verdict
  adapter,     \* one NodemailerProvider: connectionMetrics and the send calls in progress
  hist         \* history: what has happened, for stating the properties

vars == <<now, domain, env, campaign, sends, bulkJob, isRunning, proc, sendSt,
          jobs, worker, api, list, guard, adapter, hist>>

\* what the DatabaseMonitorService never writes
offMonitor == <<jobs, worker, api, list, guard, adapter>>

\* the addresses of the lists in use
Emails == UNION {1..list[c] : c \in Campaigns}
\* the addresses a list of NumEmails may hold, and those any list may hold
ListIds == 1..NumEmails
EmailIds == 1..MaxEmails

\* --------------------------------------------------------------- helpers
Min(a, b) == IF a < b THEN a ELSE b

RECURSIVE Pow2(_)
Pow2(n) == IF n = 0 THEN 1 ELSE 2 * Pow2(n - 1)

RECURSIVE SortBy(_, _)
\* the elements of S as a sequence, ascending in key (an injective integer function)
SortBy(S, key) ==
  IF S = {} THEN <<>>
  ELSE LET m == CHOOSE x \in S : \A y \in S : key[x] <= key[y]
       IN <<m>> \o SortBy(S \ {m}, key)

Take(s, n) == SubSeq(s, 1, Min(n, Len(s)))

ValidDomain ==
  [smtpProvider |-> "custom", verified |-> TRUE, fromEmail |-> TRUE,
   smtpComplete |-> TRUE, enableDomainWarmup |-> FALSE, dailyLimit |-> 100]

AllKeys == [resend |-> TRUE, mailtrap |-> TRUE]

\* smtpProvider values; "none" is null
ProviderNames == {"custom", "resend", "Resend", "mailtrap", "sendgrid", "none"}
\* String.prototype.toLowerCase on them
Lower == [s \in ProviderNames |-> IF s = "Resend" THEN "resend" ELSE s]
\* process.env[`${smtpProvider.toUpperCase()}_API_KEY`]
ApiKeySet(e, name) == IF Lower[name] = "resend" THEN e.resend ELSE e.mailtrap

IdleWorker ==
  [pc |-> "idle", job |-> [c |-> 0, e |-> 0, left |-> 0], row |-> [c |-> 0, e |-> 0, k |-> 0]]
IdleApi ==
  [pc |-> "idle", camp |-> 0, rows |-> {}, draft |-> FALSE, sched |-> Null, calls |-> 0,
   done |-> "none"]
\* an id that names no campaign row
NoCampaign == [status |-> "none", scheduledAt |-> Null, sentAt |-> Null]
NoGuard == [camps |-> <<>>, result |-> "none"]

\* the callers that share one NodemailerProvider, and a call of send: where it is, the
\* attempt of its loop, how many calls the caller has made and how the last one ended
Senders == {1, 2}
NoCall == [pc |-> "idle", attempt |-> 0, calls |-> 0, valid |-> TRUE, out |-> "none"]
\* connectionMetrics = {successCount: 0, errorCount: 0}, coolingUntil undefined
NewAdapter ==
  [successCount |-> 0, errorCount |-> 0, coolingUntil |-> Null,
   call |-> [s \in Senders |-> NoCall]]

NoJob ==
  [exists |-> FALSE, status |-> "none", totalEmails |-> 0, processedEmails |-> 0,
   successCount |-> 0, failureCount |-> 0]

IdleProc == [pc |-> "idle", queue |-> <<>>, camp |-> 0, origin |-> "none", batch |-> 0]

\* A row of emailSend is named by its campaign, its email and its rank among the rows
\* of that pair; sends[c][e] lists the rows of the pair in insertion order.
RowId(c, e, k) == [c |-> c, e |-> e, k |-> k]
NoRow == RowId(0, 0, 0)
NoSend == [pc |-> "none", row |-> NoRow]
NoSends == [e \in Emails |-> NoSend]
Row(i) == sends[i.c][i.e][i.k]
RowsOf(c, e) == {RowId(c, e, k) : k \in 1..Len(sends[c][e])}
RowsOfCampaign(c) == UNION {RowsOf(c, e) : e \in Emails}
AllRows == UNION {RowsOfCampaign(c) : c \in Campaigns}

\* @updatedAt is read of FAILED and RETRYING rows only (retry and cleanup queries),
\* so the model keeps it for those and leaves it Null elsewhere
Stamp(status, t) == IF status \in {"FAILED", "RETRYING"} THEN t ELSE Null

NewRow == [status |-> "PENDING", retries |-> 0, updatedAt |-> Null]

\* emailSend.update({where: {id}, data}) of the status, as the store stamps it
SetStatus(snd, i, st, t) ==
  [snd EXCEPT ![i.c][i.e][i.k].status = st, ![i.c][i.e][i.k].updatedAt = Stamp(st, t)]

\* campaign.list.emails with valid: true, as the queries include it
ListEmails(c) == 1..list[c]
\* the recipients whose sends a provider may reject: the last of the list
FailingEmails(c) == {list[c]}

\* ------------------------------------------------------------- queries
\* processCampaignsImmediately: the findMany predicate
IsImmediate(c) ==
  \/ campaign[c].status = "DRAFT" /\ campaign[c].scheduledAt = Null
  \/ campaign[c].status = "READY"
  \/ campaign[c].status = "DRAFT" /\ campaign[c].scheduledAt # Null
                                  /\ campaign[c].scheduledAt <= now

\* processScheduledCampaigns (monitor and CampaignScheduler): the findMany predicate
IsScheduledDue(c) ==
  /\ campaign[c].status = "SCHEDULED"
  /\ campaign[c].scheduledAt # Null
  /\ campaign[c].scheduledAt <= now

\* checkStalledSendingCampaigns: the findMany predicate
IsStalled(c) ==
  /\ campaign[c].status = "SENDING"
  /\ campaign[c].sentAt # Null
  /\ campaign[c].sentAt <= now - STALL_MINUTES

\* checkStalledSendingCampaigns: the included sends (PENDING, RETRYING, FAILED)
NonTerminalRows(c) ==
  {i \in RowsOfCampaign(c) : Row(i).status \in {"PENDING", "RETRYING", "FAILED"}}

\* updateCampaignMetrics: totalSends > 0 && completedSends === totalSends
MetricsComplete(c) ==
  /\ RowsOfCampaign(c) # {}
  /\ \A i \in RowsOfCampaign(c) : Row(i).status \in {"SENT", "BOUNCED", "FAILED"}

\* checkFailedEmailsForRetry: the findMany predicate
IsRetryCandidate(i) ==
  /\ Row(i).status = "FAILED"
  /\ Row(i).retries < MAX_RETRY_ATTEMPTS
  /\ Row(i).updatedAt >= now - RETRY_WINDOW_MINUTES

\* checkFailedEmailsForRetry: Date.now() - updatedAt >= 2^retries * RETRY_DELAY_BASE,
\* evaluated on the snapshot row when the loop reaches it
BackoffElapsed(item, t) == t - item.updatedAt >= Pow2(item.retries) * RETRY_DELAY_BASE

RECURSIVE DropIneligible(_, _)
\* the loop skips, without awaiting, every snapshot row whose backoff has not elapsed
DropIneligible(q, t) ==
  IF q = <<>> THEN <<>>
  ELSE IF BackoffElapsed(Head(q), t) THEN q
  ELSE DropIneligible(Tail(q), t)

\* cleanupStalledJobs: the findMany predicate
IsStaleRetrying(i) ==
  /\ Row(i).status = "RETRYING"
  /\ Row(i).updatedAt <= now - STALE_RETRY_MINUTES

\* result order of the queries: createdAt (the id), and for the immediate poll
\* scheduledAt first (orderBy scheduledAt asc, createdAt asc; nulls last)
CampKey == [c \in Campaigns |-> c]
SchedKey ==
  [c \in Campaigns |->
     (IF campaign[c].scheduledAt = Null THEN MaxTime + 1 ELSE campaign[c].scheduledAt)
       * (Cardinality(Campaigns) + 1) + c]
RowKey == [i \in AllRows |-> (i.c * (MaxEmails + 1) + i.e) * (MaxDup + 2) + i.k]

CampItem(c, f) == [c |-> c, flag |-> f]
RowItem(i) == [row |-> i, retries |-> Row(i).retries, updatedAt |-> Row(i).updatedAt]

ImmediateQueue ==
  LET q == SortBy({c \in Campaigns : IsImmediate(c)}, SchedKey)
  IN Take([k \in 1..Len(q) |-> CampItem(q[k], FALSE)], PollTake)

ScheduledQueue ==
  LET q == SortBy({c \in Campaigns : IsScheduledDue(c)}, CampKey)
  IN Take([k \in 1..Len(q) |-> CampItem(q[k], FALSE)], PollTake)

RetryQueue ==
  LET q == SortBy({i \in AllRows : IsRetryCandidate(i)}, RowKey)
  IN DropIneligible([k \in 1..Len(q) |-> RowItem(q[k])], now)

CleanupQueue ==
  LET q == SortBy({i \in AllRows : IsStaleRetrying(i)}, RowKey)
  IN [k \in 1..Len(q) |-> RowItem(q[k])]

StallQueue ==
  LET q == SortBy({c \in Campaigns : IsStalled(c)}, CampKey)
  IN [k \in 1..Len(q) |-> CampItem(q[k], NonTerminalRows(q[k]) # {})]

\* the loop of updateCampaignMetrics awaits only for the campaigns it marks SENT
MetricsQueue ==
  LET q == SortBy({c \in Campaigns : campaign[c].status = "SENDING" /\ MetricsComplete(c)},
                  CampKey)
  IN [k \in 1..Len(q) |-> CampItem(q[k], TRUE)]

\* configureProviderForDomain: the resend and mailtrap cases build their provider; the
\* custom case, which is also the default one, throws without host or credentials
ProviderResolves(d) ==
  \/ Lower[d.smtpProvider] \in {"resend", "mailtrap"}
  \/ d.smtpComplete

\* ------------------------------------------------------ domain validation
RECURSIVE SumSizes(_)
SumSizes(q) == IF q = <<>> THEN 0 ELSE Head(q).size + SumSizes(Tail(q))

\* checkDomainWarmupStatus without the exit from warmup at 1000 sent
checkDomainWarmupStatusNoExit(d, camps, t) ==
  LET recent == SelectSeq(camps, LAMBDA x : x.status = "SENT" /\ x.sentAt # Null
                                            /\ x.sentAt >= t - WARMUP_WINDOW_MINUTES)
  IN [enableDomainWarmup |-> d.enableDomainWarmup,
      sentLast30Days |-> SumSizes(recent),
      dailyLimit |-> IF d.dailyLimit \in {0, Null} THEN DEFAULT_DAILY_LIMIT ELSE d.dailyLimit,
      isInWarmup |-> d.enableDomainWarmup]

\* checkDomainWarmupStatus: the domain's SENT campaigns of the last 30 days, each
\* counted with the valid emails of its list
checkDomainWarmupStatus(d, camps, t) ==
  LET recent == SelectSeq(camps, LAMBDA x : x.status = "SENT" /\ x.sentAt # Null
                                            /\ x.sentAt >= t - WARMUP_WINDOW_MINUTES)
      sentLast30Days == SumSizes(recent)
  IN [enableDomainWarmup |-> d.enableDomainWarmup,
      sentLast30Days |-> sentLast30Days,
      dailyLimit |-> IF d.dailyLimit \in {0, Null} THEN DEFAULT_DAILY_LIMIT ELSE d.dailyLimit,
      isInWarmup |-> d.enableDomainWarmup /\ sentLast30Days < WARMUP_EXIT_VOLUME]

\* validateDomainForSending: TRUE when the domain may send
validateDomainForSending(d, e, camps, t) ==
  IF d.smtpProvider = "none" \/ Lower[d.smtpProvider] \notin {"custom", "resend", "mailtrap"}
  THEN FALSE
  ELSE IF Lower[d.smtpProvider] = "custom" /\ ~d.verified THEN FALSE
  ELSE IF Lower[d.smtpProvider] = "custom" /\ ~d.fromEmail THEN FALSE
  ELSE IF Lower[d.smtpProvider] = "custom" /\ ~d.smtpComplete THEN FALSE
  ELSE IF Lower[d.smtpProvider] # "custom" /\ ~ApiKeySet(e, d.smtpProvider) THEN FALSE
  ELSE IF d.enableDomainWarmup
  THEN LET warmupStatus == checkDomainWarmupStatus(d, camps, t)
       IN ~(warmupStatus.isInWarmup
            /\ warmupStatus.sentLast30Days >= warmupStatus.dailyLimit)
  ELSE TRUE

\* the campaigns of the sending domain as checkDomainWarmupStatus includes them
DomainCampaigns ==
  LET q == SortBy(Campaigns, [c \in Campaigns |-> c])
  IN [k \in 1..Len(q) |->
        [status |-> campaign[q[k]].status, sentAt |-> campaign[q[k]].sentAt,
         size |-> Cardinality(ListEmails(q[k]))]]

\* the batches of processCampaignEmailsDirectly: emails i .. i + BATCH_SIZE - 1
NumBatches(c) == (Cardinality(ListEmails(c)) + BATCH_SIZE - 1) \div BATCH_SIZE

\* a pass that hands the whole list to one Promise.allSettled
BatchEmailsUnsliced(c, b) == IF b = 0 THEN ListEmails(c) ELSE {}

\* campaign.list.emails.slice(i, i + BATCH_SIZE), i = b * BATCH_SIZE
BatchEmails(c, b) == {e \in ListEmails(c) : (e - 1) \div BATCH_SIZE = b}

StartBatch(c, b) ==
  [e \in Emails |-> IF e \in BatchEmails(c, b) THEN [pc |-> "find", row |-> NoRow] ELSE NoSend]

\* ---------------------------------------------------------- continuations
\* A callback's record says which store operation it issues next.  A query that
\* returns no work is taken together with the callback's next query.
At(pcName, q) == [IdleProc EXCEPT !.pc = pcName, !.queue = q]

\* the 30-second callback from its k-th phase on:
\* processCampaignsImmediately, checkFailedEmailsForRetry, cleanupStalledJobs
FastFrom(k) ==
  IF k <= 1 /\ ImmediateQueue # <<>> THEN At("claim", ImmediateQueue)
  ELSE IF k <= 2 /\ RetryQueue # <<>> THEN At("retry", RetryQueue)
  ELSE IF CleanupQueue # <<>> THEN At("cleanup", CleanupQueue)
  ELSE IdleProc

\* the 1-minute callback from its k-th phase on:
\* processScheduledCampaigns, checkStalledSendingCampaigns, updateCampaignMetrics
SlowFrom(k) ==
  IF k <= 1 /\ ScheduledQueue # <<>> THEN At("claim", ScheduledQueue)
  ELSE IF k <= 2 /\ StallQueue # <<>> THEN At("stall", StallQueue)
  ELSE IF MetricsQueue # <<>> THEN At("metrics", MetricsQueue)
  ELSE IdleProc

\* what a callback awaits next once a claim or a stall re-dispatch has returned
AfterPass(p, origin, rest) ==
  IF origin = "claim"
  THEN At(IF rest # <<>> THEN "claim"
          ELSE IF p \in FastProcs THEN "retryScan" ELSE "stallScan", rest)
  ELSE At(IF rest # <<>> THEN "stall" ELSE "metricsScan", rest)

\* the retry loop: skip the rows not yet due, then send the next one or go on
AfterRetry(rest, t) ==
  LET q == DropIneligible(rest, t)
  IN IF q = <<>> THEN At("cleanupScan", <<>>) ELSE At("retry", q)

Bump(f, k) == [f EXCEPT ![k] = Min(@ + 1, 2)]

\* ------------------------------------------------------------------ Init
InitCampaigns ==
  {[status |-> "DRAFT", scheduledAt |-> Null, sentAt |-> Null],
   [status |-> "DRAFT", scheduledAt |-> SchedTime, sentAt |-> Null],
   [status |-> "READY", scheduledAt |-> Null, sentAt |-> Null],
   [status |-> "SCHEDULED", scheduledAt |-> SchedTime, sentAt |-> Null]}

InitHist ==
  [claims |-> [c \in Campaigns |-> 0],
   completions |-> [p \in Procs |-> 0],
   invalidClaim |-> [c \in Campaigns |-> FALSE],
   passes |-> [c \in Campaigns |-> 0],
   restarts |-> 0,
   cooling |-> Null]

InitStore ==
  /\ sends = [c \in Campaigns |-> [e \in Emails |-> <<>>]]
  /\ bulkJob = [c \in Campaigns |-> NoJob]
  /\ isRunning = FALSE
  /\ proc = [p \in AllProcs |-> IdleProc]
  /\ sendSt = [p \in Procs |-> NoSends]
  /\ jobs = {}
  /\ worker = IdleWorker
  /\ api = IdleApi
  /\ adapter = NewAdapter
  /\ hist = InitHist

InitCommon ==
  /\ now = 0
  /\ env = AllKeys
  /\ campaign \in [Campaigns -> InitCampaigns]
  /\ InitStore

Init ==
  /\ list = [c \in Campaigns |-> NumEmails]
  /\ InitCommon
  /\ domain = ValidDomain
  /\ guard = NoGuard

\* --------------------------------------------------------------- the clock
Tick ==
  /\ \E d \in TickSteps : now + d <= MaxTime /\ now' = now + d
  /\ UNCHANGED <<offMonitor, domain, env, campaign, sends, bulkJob, isRunning, proc, sendSt, hist>>

\* ------------------------------------------------- the two monitor cadences
\* the handlers in flight: cron callbacks, the request and the worker's job
Busy ==
  Cardinality({q \in AllProcs : proc[q].pc # "idle"})
    + (IF api.pc # "idle" THEN 1 ELSE 0) + (IF worker.pc # "idle" THEN 1 ELSE 0)

\* a callback takes the lowest free record of its cadence
LowestIdle(p, S) ==
  /\ proc[p].pc = "idle"
  /\ \A q \in S : q < p => proc[q].pc # "idle"
  /\ Busy < MaxActive

\* startMonitoring, '*/30 * * * * *': the isRunning guard, then the callback's queries
FastTick(p) ==
  /\ p \in FastProcs /\ LowestIdle(p, FastProcs)
  /\ ~isRunning
  /\ proc' = [proc EXCEPT ![p] = FastFrom(1)]
  /\ isRunning' = (FastFrom(1).pc # "idle")
  /\ UNCHANGED <<offMonitor, now, domain, env, campaign, sends, bulkJob, sendSt, hist>>

\* startMonitoring, '* * * * *': no guard, then the callback's queries
SlowTick(p) ==
  /\ p \in SlowProcs /\ LowestIdle(p, SlowProcs)
  /\ proc' = [proc EXCEPT ![p] = SlowFrom(1)]
  /\ UNCHANGED <<offMonitor, now, domain, env, campaign, sends, bulkJob, isRunning, sendSt, hist>>

\* processSingleCampaign: campaign.update(status SENDING, sentAt now)
ClaimCampaign(p) ==
  /\ proc[p].pc = "claim"
  /\ LET c == Head(proc[p].queue).c
     IN /\ campaign' = [campaign EXCEPT ![c].status = "SENDING", ![c].sentAt = now]
        /\ proc' = [proc EXCEPT ![p].pc = "upsert", ![p].camp = c,
                                ![p].origin = "claim", ![p].queue = Tail(@)]
        /\ hist' = [hist EXCEPT
              !.claims = Bump(@, c), !.completions[p] = 0,
              !.invalidClaim[c] = ~validateDomainForSending(domain, env, DomainCampaigns, now)]
  /\ UNCHANGED <<offMonitor, now, domain, env, sends, bulkJob, isRunning, sendSt>>

\* processCampaignEmailsDirectly: bulkEmailJob.upsert, then the first batch is started
UpsertBulkJob(p) ==
  /\ proc[p].pc = "upsert"
  /\ LET c == proc[p].camp
         n == Cardinality(ListEmails(c))
     IN /\ bulkJob' = [bulkJob EXCEPT ![c] =
               [exists |-> TRUE, status |-> "processing", totalEmails |-> n,
                processedEmails |-> 0, successCount |-> 0, failureCount |-> 0]]
        /\ IF n = 0
           THEN /\ proc' = [proc EXCEPT ![p] = AfterPass(p, proc[p].origin, proc[p].queue)]
                /\ hist' = [hist EXCEPT !.passes = Bump(@, c)]
                /\ UNCHANGED sendSt
           ELSE /\ proc' = [proc EXCEPT ![p].pc = "batch", ![p].batch = 0]
                /\ sendSt' = [sendSt EXCEPT ![p] = StartBatch(c, 0)]
                /\ UNCHANGED hist
  /\ UNCHANGED <<offMonitor, now, domain, env, campaign, sends, isRunning>>

\* processCampaignEmailsDirectly: the upsert rejects (store error) and the pass throws;
\* processSingleCampaign's catch then marks the campaign FAILED, the stall sweep's
\* catch rethrows and ends the cron callback
UpsertThrows(p) ==
  /\ proc[p].pc = "upsert"
  /\ IF proc[p].origin = "claim"
     THEN proc' = [proc EXCEPT ![p].pc = "markFailed"]
     ELSE proc' = [proc EXCEPT ![p] = IdleProc]
  /\ UNCHANGED <<offMonitor, now, domain, env, campaign, sends, bulkJob, isRunning, sendSt, hist>>

\* processSingleCampaign, catch: campaign.update(status FAILED)
MarkFailed(p) ==
  /\ proc[p].pc = "markFailed"
  /\ campaign' = [campaign EXCEPT ![proc[p].camp].status = "FAILED"]
  /\ proc' = [proc EXCEPT ![p] = AfterPass(p, "claim", proc[p].queue)]
  /\ UNCHANGED <<offMonitor, now, domain, env, sends, bulkJob, isRunning, sendSt, hist>>

\* processCampaignEmailsDirectly: Promise.allSettled has settled and the pause is over
BatchDone(p) ==
  /\ proc[p].pc = "batch"
  /\ \A e \in Emails : sendSt[p][e].pc \in {"none", "done"}
  /\ LET c == proc[p].camp
         b == proc[p].batch + 1
     IN IF b < NumBatches(c)
        THEN /\ proc' = [proc EXCEPT ![p].batch = b]
             /\ sendSt' = [sendSt EXCEPT ![p] = StartBatch(c, b)]
             /\ UNCHANGED hist
        ELSE /\ proc' = [proc EXCEPT ![p] = AfterPass(p, proc[p].origin, proc[p].queue)]
             /\ sendSt' = [sendSt EXCEPT ![p] = NoSends]
             /\ hist' = [hist EXCEPT !.passes = Bump(@, c)]
  /\ UNCHANGED <<offMonitor, now, domain, env, campaign, sends, bulkJob, isRunning>>

\* ------------------------------------------------------- sendSingleEmail
\* the campaign a callback's sends belong to and the bulk job id they were handed:
\* processCampaignEmailsDirectly passes bulkJob.id, checkFailedEmailsForRetry passes
\* emailSend.campaignId, which is no bulkEmailJob id
SendCampaign(p) == proc[p].camp
HasJobId(p) == proc[p].origin # "retry"

\* what follows the return of a sendSingleEmail call: a batch waits for its siblings,
\* the retry loop goes on at once
SendReturns(p, e) ==
  IF proc[p].origin = "retry"
  THEN /\ proc' = [proc EXCEPT ![p] = AfterRetry(Tail(proc[p].queue), now)]
       /\ sendSt' = [sendSt EXCEPT ![p] = NoSends]
  ELSE /\ sendSt' = [sendSt EXCEPT ![p][e] = [pc |-> "done", row |-> NoRow]]
       /\ UNCHANGED proc

\* sendSingleEmail without the lookup: a row is created on every call
SendFindBlind(p, e) ==
  /\ e \in Emails
  /\ sendSt[p][e].pc = "find"
  /\ sendSt' = [sendSt EXCEPT ![p][e].pc = "create"]
  /\ UNCHANGED <<offMonitor, now, domain, env, campaign, sends, bulkJob, isRunning, proc, hist>>

\* emailSend.findFirst({emailId, campaignId}); no orderBy: any matching row
SendFind(p, e) ==
  /\ e \in Emails
  /\ sendSt[p][e].pc = "find"
  /\ LET rows == RowsOf(SendCampaign(p), e)
     IN IF rows = {}
        THEN sendSt' = [sendSt EXCEPT ![p][e].pc = "create"]
        ELSE \E i \in rows : sendSt' = [sendSt EXCEPT ![p][e] = [pc |-> "sending", row |-> i]]
  /\ UNCHANGED <<offMonitor, now, domain, env, campaign, sends, bulkJob, isRunning, proc, hist>>

\* emailSend.create({emailId, campaignId, status PENDING})
SendCreate(p, e) ==
  /\ e \in Emails
  /\ sendSt[p][e].pc = "create"
  /\ LET c == SendCampaign(p)
     IN /\ Len(sends[c][e]) < MaxDup
        /\ sends' = [sends EXCEPT ![c][e] = Append(@, NewRow)]
        /\ sendSt' = [sendSt EXCEPT ![p][e] =
              [pc |-> "sending", row |-> RowId(c, e, Len(sends[c][e]) + 1)]]
  /\ UNCHANGED <<offMonitor, now, domain, env, campaign, bulkJob, isRunning, proc, hist>>

\* a failed send that rejects the batch as Promise.all would: the pass throws at once
SendFailsFast(p, e) ==
  /\ e \in Emails
  /\ sendSt[p][e].pc = "sending"
  /\ e \in FailingEmails(SendCampaign(p)) \/ ~ProviderResolves(domain)
  /\ LET i == sendSt[p][e].row
     IN /\ Row(i).retries < MaxRetries
        /\ sends' = [SetStatus(sends, i, "FAILED", now) EXCEPT
                       ![i.c][i.e][i.k].retries = @ + 1]
  /\ sendSt' = [sendSt EXCEPT ![p] = NoSends]
  /\ proc' = [proc EXCEPT ![p].pc = IF proc[p].origin = "claim" THEN "markFailed" ELSE "idle"]
  /\ UNCHANGED <<offMonitor, now, domain, env, campaign, bulkJob, isRunning, hist>>

\* provider.send returned a messageId: emailSend.update(status SENT)
SendSucceeds(p, e) ==
  /\ e \in Emails
  /\ sendSt[p][e].pc = "sending"
  /\ ProviderResolves(domain)
  /\ sends' = SetStatus(sends, sendSt[p][e].row, "SENT", now)
  /\ sendSt' = [sendSt EXCEPT ![p][e].pc = "incOk"]
  /\ UNCHANGED <<offMonitor, now, domain, env, campaign, bulkJob, isRunning, proc, hist>>

\* configureProviderForDomain or provider.send threw:
\* emailSend.update(status FAILED, retries increment 1)
SendFails(p, e) ==
  /\ e \in Emails
  /\ sendSt[p][e].pc = "sending"
  /\ e \in FailingEmails(SendCampaign(p)) \/ ~ProviderResolves(domain)
  /\ LET i == sendSt[p][e].row
     IN /\ Row(i).retries < MaxRetries
        /\ sends' = [SetStatus(sends, i, "FAILED", now) EXCEPT
                       ![i.c][i.e][i.k].retries = @ + 1]
  /\ sendSt' = [sendSt EXCEPT ![p][e].pc = "incFail"]
  /\ UNCHANGED <<offMonitor, now, domain, env, campaign, bulkJob, isRunning, proc, hist>>

\* updateBulkJobStats: bulkEmailJob.update(processedEmails increment 1, ...); an id that
\* names no bulkEmailJob row makes the update throw, which the method's catch swallows
\* an update that counts the call as processed and leaves the outcome counters alone
StatsIncrementProcessedOnly(p, e) ==
  /\ e \in Emails
  /\ sendSt[p][e].pc \in {"incOk", "incFail"}
  /\ LET c == SendCampaign(p)
     IN IF HasJobId(p) /\ bulkJob[c].exists
        THEN /\ bulkJob' = [bulkJob EXCEPT ![c].processedEmails = @ + 1]
             /\ sendSt' = [sendSt EXCEPT ![p][e].pc = "read"]
             /\ UNCHANGED proc
        ELSE /\ UNCHANGED bulkJob
             /\ SendReturns(p, e)
  /\ UNCHANGED <<offMonitor, now, domain, env, campaign, sends, isRunning, hist>>

\* updateBulkJobStats: the bulkEmailJob.update rejects (store error); the method's catch
\* logs it and the call returns with no counter changed
StatsIncrementThrows(p, e) ==
  /\ e \in Emails
  /\ sendSt[p][e].pc \in {"incOk", "incFail"}
  /\ HasJobId(p)
  /\ SendReturns(p, e)
  /\ UNCHANGED <<offMonitor, now, domain, env, campaign, sends, bulkJob, isRunning, hist>>

StatsIncrement(p, e) ==
  /\ e \in Emails
  /\ sendSt[p][e].pc \in {"incOk", "incFail"}
  /\ LET c == SendCampaign(p)
     IN IF HasJobId(p) /\ bulkJob[c].exists
        THEN /\ bulkJob' = [bulkJob EXCEPT
                  ![c].processedEmails = @ + 1,
                  ![c].successCount = IF sendSt[p][e].pc = "incOk" THEN @ + 1 ELSE @,
                  ![c].failureCount = IF sendSt[p][e].pc = "incFail" THEN @ + 1 ELSE @]
             /\ sendSt' = [sendSt EXCEPT ![p][e].pc = "read"]
             /\ UNCHANGED proc
        ELSE /\ UNCHANGED bulkJob
             /\ SendReturns(p, e)
  /\ UNCHANGED <<offMonitor, now, domain, env, campaign, sends, isRunning, hist>>

\* updateBulkJobStats: bulkEmailJob.findUnique, then processedEmails >= totalEmails
StatsRead(p, e) ==
  /\ e \in Emails
  /\ sendSt[p][e].pc = "read"
  /\ LET j == bulkJob[SendCampaign(p)]
     IN IF j.processedEmails >= j.totalEmails
        THEN /\ sendSt' = [sendSt EXCEPT ![p][e].pc = "complete"]
             /\ UNCHANGED proc
        ELSE SendReturns(p, e)
  /\ UNCHANGED <<offMonitor, now, domain, env, campaign, sends, bulkJob, isRunning, hist>>

\* updateBulkJobStats: bulkEmailJob.update(status completed, completedAt now)
StatsComplete(p, e) ==
  /\ e \in Emails
  /\ sendSt[p][e].pc = "complete"
  /\ bulkJob' = [bulkJob EXCEPT ![SendCampaign(p)].status = "completed"]
  /\ sendSt' = [sendSt EXCEPT ![p][e].pc = "markSent"]
  /\ hist' = [hist EXCEPT !.completions = Bump(@, p)]
  /\ UNCHANGED <<offMonitor, now, domain, env, campaign, sends, isRunning, proc>>

\* updateBulkJobStats: campaign.update(status SENT)
StatsMarkSent(p, e) ==
  /\ e \in Emails
  /\ sendSt[p][e].pc = "markSent"
  /\ campaign' = [campaign EXCEPT ![SendCampaign(p)].status = "SENT"]
  /\ SendReturns(p, e)
  /\ UNCHANGED <<offMonitor, now, domain, env, sends, bulkJob, isRunning, hist>>

\* ------------------------------------------------- checkFailedEmailsForRetry
\* emailSend.findMany(FAILED, retries < MAX_RETRY_ATTEMPTS, updated in the last 24 h)
RetryScan(p) ==
  /\ proc[p].pc = "retryScan"
  /\ proc' = [proc EXCEPT ![p] = FastFrom(2)]
  /\ isRunning' = (FastFrom(2).pc # "idle")
  /\ UNCHANGED <<offMonitor, now, domain, env, campaign, sends, bulkJob, sendSt, hist>>

\* sendSingleEmail(emailSend.campaign, emailSend.email, emailSend.campaignId):
\* the call's findFirst
RetrySend(p) ==
  /\ proc[p].pc = "retry"
  /\ LET i == Head(proc[p].queue).row
     IN /\ proc' = [proc EXCEPT ![p].pc = "retrySend", ![p].origin = "retry", ![p].camp = i.c]
        /\ IF RowsOf(i.c, i.e) = {}
           THEN sendSt' = [sendSt EXCEPT ![p][i.e].pc = "create"]
           ELSE \E j \in RowsOf(i.c, i.e) :
                  sendSt' = [sendSt EXCEPT ![p][i.e] = [pc |-> "sending", row |-> j]]
  /\ UNCHANGED <<offMonitor, now, domain, env, campaign, sends, bulkJob, isRunning, hist>>

\* ------------------------------------------------------ cleanupStalledJobs
\* emailSend.findMany(RETRYING, updatedAt <= now - 10 min)
CleanupScan(p) ==
  /\ proc[p].pc = "cleanupScan"
  /\ proc' = [proc EXCEPT ![p] = FastFrom(3)]
  /\ isRunning' = (FastFrom(3).pc # "idle")
  /\ UNCHANGED <<offMonitor, now, domain, env, campaign, sends, bulkJob, sendSt, hist>>

\* a cleanup loop that logs the stale row and leaves it as it is
CleanupRowLogsOnly(p) ==
  /\ proc[p].pc = "cleanup"
  /\ proc' = [proc EXCEPT ![p] =
        IF Tail(proc[p].queue) = <<>> THEN IdleProc ELSE At("cleanup", Tail(proc[p].queue))]
  /\ isRunning' = (Tail(proc[p].queue) # <<>>)
  /\ UNCHANGED <<offMonitor, now, domain, env, campaign, sends, bulkJob, sendSt, hist>>

\* emailSend.update(status FAILED) for the next stale RETRYING row; after the last
\* one the callback's finally block clears isRunning
CleanupRow(p) ==
  /\ proc[p].pc = "cleanup"
  /\ sends' = SetStatus(sends, Head(proc[p].queue).row, "FAILED", now)
  /\ proc' = [proc EXCEPT ![p] =
        IF Tail(proc[p].queue) = <<>> THEN IdleProc ELSE At("cleanup", Tail(proc[p].queue))]
  /\ isRunning' = (Tail(proc[p].queue) # <<>>)
  /\ UNCHANGED <<offMonitor, now, domain, env, campaign, bulkJob, sendSt, hist>>

\* ------------------------------------------- checkStalledSendingCampaigns
\* campaign.findMany(SENDING, sentAt <= now - 30 min), with the non-terminal sends
StallScan(p) ==
  /\ proc[p].pc = "stallScan"
  /\ proc' = [proc EXCEPT ![p] = SlowFrom(2)]
  /\ UNCHANGED <<offMonitor, now, domain, env, campaign, sends, bulkJob, isRunning, sendSt, hist>>

\* sends.length > 0: campaign.findUnique for fresh data, then the pass is entered
\* a stall sweep that logs the campaign with open attempts and moves on
StallRefetchLogsOnly(p) ==
  /\ proc[p].pc = "stall"
  /\ Head(proc[p].queue).flag
  /\ proc' = [proc EXCEPT ![p] = AfterPass(p, "stall", Tail(proc[p].queue))]
  /\ UNCHANGED <<offMonitor, now, domain, env, campaign, sends, bulkJob, isRunning, sendSt, hist>>

StallRefetch(p) ==
  /\ proc[p].pc = "stall"
  /\ Head(proc[p].queue).flag
  /\ proc' = [proc EXCEPT ![p].pc = "upsert", ![p].camp = Head(proc[p].queue).c,
                          ![p].origin = "stall", ![p].queue = Tail(@)]
  /\ hist' = [hist EXCEPT !.completions[p] = 0]
  /\ UNCHANGED <<offMonitor, now, domain, env, campaign, sends, bulkJob, isRunning, sendSt>>

\* the stall sweep's else branch without its campaign.update
StallForceSentSkipped(p) ==
  /\ proc[p].pc = "stall"
  /\ ~Head(proc[p].queue).flag
  /\ proc' = [proc EXCEPT ![p] = AfterPass(p, "stall", Tail(proc[p].queue))]
  /\ UNCHANGED <<offMonitor, now, domain, env, campaign, sends, bulkJob, isRunning, sendSt, hist>>

\* sends.length = 0: campaign.update(status SENT)
StallForceSent(p) ==
  /\ proc[p].pc = "stall"
  /\ ~Head(proc[p].queue).flag
  /\ campaign' = [campaign EXCEPT ![Head(proc[p].queue).c].status = "SENT"]
  /\ proc' = [proc EXCEPT ![p] = AfterPass(p, "stall", Tail(proc[p].queue))]
  /\ UNCHANGED <<offMonitor, now, domain, env, sends, bulkJob, isRunning, sendSt, hist>>

\* ------------------------------------------------- updateCampaignMetrics
\* campaign.findMany(SENDING) with the sends' statuses
MetricsScan(p) ==
  /\ proc[p].pc = "metricsScan"
  /\ proc' = [proc EXCEPT ![p] = SlowFrom(3)]
  /\ UNCHANGED <<offMonitor, now, domain, env, campaign, sends, bulkJob, isRunning, sendSt, hist>>

\* a metrics sweep that logs the finished campaign and leaves its status
MetricsLogsOnly(p) ==
  /\ proc[p].pc = "metrics"
  /\ proc' = [proc EXCEPT ![p] =
        IF Tail(proc[p].queue) = <<>> THEN IdleProc ELSE At("metrics", Tail(proc[p].queue))]
  /\ UNCHANGED <<offMonitor, now, domain, env, campaign, sends, bulkJob, isRunning, sendSt, hist>>

\* campaign.update(status SENT)
MetricsMarkSent(p) ==
  /\ proc[p].pc = "metrics"
  /\ campaign' = [campaign EXCEPT ![Head(proc[p].queue).c].status = "SENT"]
  /\ proc' = [proc EXCEPT ![p] =
        IF Tail(proc[p].queue) = <<>> THEN IdleProc ELSE At("metrics", Tail(proc[p].queue))]
  /\ UNCHANGED <<offMonitor, now, domain, env, sends, bulkJob, isRunning, sendSt, hist>>

\* --------------------------------------------------------- the job queue
\* emailQueue.add('sendEmail', {campaignId, emailId}, {attempts: 3}) for each email; the
\* adds write the queue only and are taken together
Enqueue(q, c, E) == q \cup {[c |-> c, e |-> e, left |-> JOB_ATTEMPTS] : e \in E}

\* emailSend.createMany: one new row for every email of the list, whatever rows exist
CreateMany(snd, c) ==
  [snd EXCEPT ![c] = [e \in Emails |->
     IF e \in ListEmails(c) THEN Append(snd[c][e], NewRow) ELSE snd[c][e]]]
RoomForRows(c) == \A e \in ListEmails(c) : Len(sends[c][e]) < MaxDup

\* ------------------------------------------ CampaignScheduler, minute poll
\* processScheduledCampaigns: campaign.findMany(SCHEDULED, scheduledAt <= now); no guard
\* against a poll still running, the model keeps one poll in flight
SchedulerTick(s) ==
  /\ s \in SchedProcs /\ proc[s].pc = "idle" /\ Busy < MaxActive
  /\ LET q == SortBy({c \in Campaigns : IsScheduledDue(c)}, CampKey)
     IN /\ q # <<>>
        /\ proc' = [proc EXCEPT ![s] = At("schedClaim", [k \in 1..Len(q) |-> CampItem(q[k], FALSE)])]
  /\ UNCHANGED <<now, domain, env, campaign, sends, bulkJob, isRunning, sendSt,
                 jobs, worker, api, list, guard, adapter, hist>>

\* campaign.update(status SENDING, sentAt now)
SchedulerClaim(s) ==
  /\ proc[s].pc = "schedClaim"
  /\ LET c == Head(proc[s].queue).c
     IN /\ campaign' = [campaign EXCEPT ![c].status = "SENDING", ![c].sentAt = now]
        /\ proc' = [proc EXCEPT ![s].pc = "schedCreate", ![s].camp = c, ![s].queue = Tail(@)]
        /\ hist' = [hist EXCEPT !.claims = Bump(@, c)]
  /\ UNCHANGED <<now, domain, env, sends, bulkJob, isRunning, sendSt, jobs, worker, api, list, guard, adapter>>

\* sendScheduledCampaign: emailSend.createMany
SchedulerCreateMany(s) ==
  /\ proc[s].pc = "schedCreate"
  /\ RoomForRows(proc[s].camp)
  /\ sends' = CreateMany(sends, proc[s].camp)
  /\ proc' = [proc EXCEPT ![s].pc = "schedEnqueue"]
  /\ UNCHANGED <<now, domain, env, campaign, bulkJob, isRunning, sendSt,
                 jobs, worker, api, list, guard, adapter, hist>>

\* sendScheduledCampaign: createMany rejects (store error); the catch is entered
SchedulerCreateThrows(s) ==
  /\ proc[s].pc = "schedCreate"
  /\ proc' = [proc EXCEPT ![s].pc = "schedFailed"]
  /\ UNCHANGED <<now, domain, env, campaign, sends, bulkJob, isRunning, sendSt,
                 jobs, worker, api, list, guard, adapter, hist>>

\* sendScheduledCampaign: the jobs are added to the queue
SchedulerEnqueue(s) ==
  /\ proc[s].pc = "schedEnqueue"
  /\ jobs' = Enqueue(jobs, proc[s].camp, ListEmails(proc[s].camp))
  /\ proc' = [proc EXCEPT ![s].pc = "schedSent"]
  /\ UNCHANGED <<now, domain, env, campaign, sends, bulkJob, isRunning, sendSt,
                 worker, api, list, guard, adapter, hist>>

\* sendScheduledCampaign: emailQueue.add rejects (queue error) after the rows were
\* created; the catch is entered
SchedulerEnqueueThrows(s) ==
  /\ proc[s].pc = "schedEnqueue"
  /\ proc' = [proc EXCEPT ![s].pc = "schedFailed"]
  /\ UNCHANGED <<now, domain, env, campaign, sends, bulkJob, isRunning, sendSt,
                 jobs, worker, api, list, guard, adapter, hist>>

\* what the poll awaits after a campaign: the next campaign's claim, or nothing
SchedulerNext(s) ==
  IF proc[s].queue = <<>> THEN IdleProc ELSE At("schedClaim", proc[s].queue)

\* sendScheduledCampaign: campaign.update(status SENT) once all jobs are queued
SchedulerMarkSent(s) ==
  /\ proc[s].pc = "schedSent"
  /\ campaign' = [campaign EXCEPT ![proc[s].camp].status = "SENT"]
  /\ proc' = [proc EXCEPT ![s] = SchedulerNext(s)]
  /\ UNCHANGED <<now, domain, env, sends, bulkJob, isRunning, sendSt, jobs, worker, api,
                 list, guard, adapter, hist>>

\* sendScheduledCampaign, catch: campaign.update(status FAILED), then the rethrow
SchedulerMarkFailed(s) ==
  /\ proc[s].pc = "schedFailed"
  /\ campaign' = [campaign EXCEPT ![proc[s].camp].status = "FAILED"]
  /\ proc' = [proc EXCEPT ![s].pc = "schedFailedAgain"]
  /\ UNCHANGED <<now, domain, env, sends, bulkJob, isRunning, sendSt, jobs, worker, api,
                 list, guard, adapter, hist>>

\* processScheduledCampaigns, catch: campaign.update(status FAILED) once more
SchedulerMarkFailedAgain(s) ==
  /\ proc[s].pc = "schedFailedAgain"
  /\ campaign' = [campaign EXCEPT ![proc[s].camp].status = "FAILED"]
  /\ proc' = [proc EXCEPT ![s] = SchedulerNext(s)]
  /\ UNCHANGED <<now, domain, env, sends, bulkJob, isRunning, sendSt, jobs, worker, api,
                 list, guard, adapter, hist>>

Scheduler ==
  \E s \in SchedProcs :
    \/ SchedulerTick(s) \/ SchedulerClaim(s) \/ SchedulerCreateMany(s)
    \/ SchedulerCreateThrows(s) \/ SchedulerEnqueue(s) \/ SchedulerEnqueueThrows(s)
    \/ SchedulerMarkSent(s)
    \/ SchedulerMarkFailed(s) \/ SchedulerMarkFailedAgain(s)

\* ------------------------------------------------------- CampaignService
\* a request is accepted while none is in progress and the run's budget lasts
ApiFree == api.pc = "idle" /\ api.calls < MaxApiCalls /\ Busy < MaxActive
ApiDone == [IdleApi EXCEPT !.calls = api.calls]
offUpdate ==
  <<now, domain, env, bulkJob, isRunning, proc, sendSt, worker, list, guard, adapter>>
offApi == <<offUpdate, hist>>

\* updateCampaign: campaign.findFirst and the status check (SENT and SENDING are refused)
UpdateCampaignFind(c) ==
  /\ ApiFree
  /\ campaign[c].status \notin {"SENT", "SENDING"}
  /\ \E saveAsDraft \in BOOLEAN, scheduledAt \in {Null, SchedTime} :
       api' = [IdleApi EXCEPT !.pc = "update", !.camp = c, !.draft = saveAsDraft,
                              !.sched = scheduledAt, !.calls = api.calls + 1]
  /\ UNCHANGED <<offApi, campaign, sends, jobs>>

\* updateCampaign: campaign.update; scheduledAt is written when the request has one
UpdateCampaignWrite ==
  /\ api.pc = "update"
  /\ campaign' = [campaign EXCEPT
        ![api.camp].status = IF api.draft THEN "DRAFT"
                             ELSE IF api.sched # Null THEN "SCHEDULED" ELSE "READY",
        ![api.camp].scheduledAt = IF api.sched # Null THEN api.sched ELSE @]
  /\ api' = ApiDone
  /\ hist' = [hist EXCEPT !.claims[api.camp] = 0]
  /\ UNCHANGED <<offUpdate, sends, jobs>>

\* sendCampaign: campaign.findFirst with its domain; the domain checks, no status check
SendCampaignFind(c) ==
  /\ ApiFree
  /\ domain.smtpProvider # "none"
  /\ domain.verified \/ Lower[domain.smtpProvider] = "resend"
  /\ api' = [IdleApi EXCEPT !.pc = "sendClaim", !.camp = c, !.calls = api.calls + 1]
  /\ UNCHANGED <<offApi, campaign, sends, jobs>>

\* sendCampaign: campaign.update(status SENDING, sentAt now)
SendCampaignClaim ==
  /\ api.pc = "sendClaim"
  /\ campaign' = [campaign EXCEPT ![api.camp].status = "SENDING", ![api.camp].sentAt = now]
  /\ api' = [api EXCEPT !.pc = "sendCreate"]
  /\ UNCHANGED <<offApi, sends, jobs>>

\* sendCampaign: emailSend.createMany
SendCampaignCreateMany ==
  /\ api.pc = "sendCreate"
  /\ RoomForRows(api.camp)
  /\ sends' = CreateMany(sends, api.camp)
  /\ api' = [api EXCEPT !.pc = "sendEnqueue"]
  /\ UNCHANGED <<offApi, campaign, jobs>>

\* sendCampaign: the jobs are added to the queue
SendCampaignEnqueue ==
  /\ api.pc = "sendEnqueue"
  /\ jobs' = Enqueue(jobs, api.camp, ListEmails(api.camp))
  /\ api' = ApiDone
  /\ UNCHANGED <<offApi, campaign, sends>>

\* retryFailedEmails: emailSend.findMany(campaignId, status in FAILED, BOUNCED)
RetryFailedFind(c) ==
  /\ ApiFree
  /\ LET failedSends == {i \in RowsOfCampaign(c) : Row(i).status \in {"FAILED", "BOUNCED"}}
     IN /\ failedSends # {}
        /\ api' = [IdleApi EXCEPT !.pc = "retryUpdate", !.camp = c, !.rows = failedSends,
                                  !.calls = api.calls + 1]
  /\ UNCHANGED <<offApi, campaign, sends, jobs>>

\* an updateMany keyed by the campaign instead of the ids that were read
RetryFailedUpdateByCampaign ==
  /\ api.pc = "retryUpdate"
  /\ \A i \in RowsOfCampaign(api.camp) : Row(i).retries < MaxRetries
  /\ sends' = [c \in Campaigns |-> [e \in Emails |-> [k \in 1..Len(sends[c][e]) |->
        IF c = api.camp
        THEN [status |-> "RETRYING", retries |-> sends[c][e][k].retries + 1,
              updatedAt |-> Stamp("RETRYING", now)]
        ELSE sends[c][e][k]]]]
  /\ api' = [api EXCEPT !.pc = "retryEnqueue"]
  /\ UNCHANGED <<offApi, campaign, jobs>>

\* retryFailedEmails: emailSend.updateMany(ids, status RETRYING, retries increment 1)
RetryFailedUpdate ==
  /\ api.pc = "retryUpdate"
  /\ \A i \in api.rows : Row(i).retries < MaxRetries
  /\ sends' = [c \in Campaigns |-> [e \in Emails |-> [k \in 1..Len(sends[c][e]) |->
        IF RowId(c, e, k) \in api.rows
        THEN [status |-> "RETRYING", retries |-> sends[c][e][k].retries + 1,
              updatedAt |-> Stamp("RETRYING", now)]
        ELSE sends[c][e][k]]]]
  /\ api' = [api EXCEPT !.pc = "retryEnqueue"]
  /\ UNCHANGED <<offApi, campaign, jobs>>

\* retryFailedEmails: one job per failed send
RetryFailedEnqueue ==
  /\ api.pc = "retryEnqueue"
  /\ jobs' = Enqueue(jobs, api.camp, {i.e : i \in api.rows})
  /\ api' = ApiDone
  /\ UNCHANGED <<offApi, campaign, sends>>

\* how a request of the operations below has ended, and for which campaign
ApiEnd(c, r) == [IdleApi EXCEPT !.calls = api.calls, !.camp = c, !.done = r]
ApiThrows(c, r) == [IdleApi EXCEPT !.calls = api.calls + 1, !.camp = c, !.done = r]
offRequest == <<offUpdate, hist, sends, jobs>>

\* deleteCampaign: campaign.findFirst; the campaign exists and is not SENDING
DeleteCampaignFind(c) ==
  /\ ApiFree
  /\ campaign[c] # NoCampaign /\ campaign[c].status # "SENDING"
  /\ api' = [IdleApi EXCEPT !.pc = "delete", !.camp = c, !.calls = api.calls + 1]
  /\ UNCHANGED <<offRequest, campaign>>

\* deleteCampaign: 'Campaign not found' or 'Cannot delete a campaign that is currently sending'
DeleteCampaignThrows(c) ==
  /\ ApiFree
  /\ campaign[c] = NoCampaign \/ campaign[c].status = "SENDING"
  /\ api' = ApiThrows(c, "deleteThrew")
  /\ UNCHANGED <<offRequest, campaign>>

\* the callback is working on campaign c or has it in its snapshot
QueuedCampaign(q) == IF "c" \in DOMAIN q THEN q.c ELSE q.row.c

WorksOn(p, c) ==
  /\ proc[p].pc # "idle"
  /\ \/ proc[p].camp = c
     \/ \E k \in 1..Len(proc[p].queue) : QueuedCampaign(proc[p].queue[k]) = c

\* the callbacks as a deleted campaign leaves them: every store write that names the
\* campaign or one of its rows throws from then on, so a callback working on it ends
\* with no further change of the store
ProcsWithout(c) == [p \in AllProcs |-> IF WorksOn(p, c) THEN IdleProc ELSE proc[p]]

\* deleteCampaign: campaign.delete({where: {id}}); the campaign's attempts and its
\* bulk job go with it
DeleteCampaignWrite ==
  /\ api.pc = "delete"
  /\ campaign' = [campaign EXCEPT ![api.camp] = NoCampaign]
  /\ sends' = [sends EXCEPT ![api.camp] = [e \in Emails |-> <<>>]]
  /\ bulkJob' = [bulkJob EXCEPT ![api.camp] = NoJob]
  /\ proc' = ProcsWithout(api.camp)
  /\ sendSt' = [p \in Procs |-> IF WorksOn(p, api.camp) THEN NoSends ELSE sendSt[p]]
  /\ isRunning' = (isRunning /\ \E p \in FastProcs : ProcsWithout(api.camp)[p].pc # "idle")
  /\ api' = ApiEnd(api.camp, "deleted")
  /\ UNCHANGED <<now, domain, env, worker, list, guard, adapter, hist, jobs>>

\* a trigger that checks only that the campaign exists
TriggerFindAnyStatus(c) ==
  /\ ApiFree
  /\ campaign[c] # NoCampaign
  /\ api' = [IdleApi EXCEPT !.pc = "trigger", !.camp = c, !.calls = api.calls + 1]
  /\ UNCHANGED <<offRequest, campaign>>

\* triggerDraftCampaignImmediately: campaign.findUnique; the campaign exists and is DRAFT
TriggerFind(c) ==
  /\ ApiFree
  /\ campaign[c] # NoCampaign /\ campaign[c].status = "DRAFT"
  /\ api' = [IdleApi EXCEPT !.pc = "trigger", !.camp = c, !.calls = api.calls + 1]
  /\ UNCHANGED <<offRequest, campaign>>

\* triggerDraftCampaignImmediately: 'Campaign not found' or 'Campaign must be in DRAFT status'
TriggerThrows(c) ==
  /\ ApiFree
  /\ campaign[c] = NoCampaign \/ campaign[c].status # "DRAFT"
  /\ api' = ApiThrows(c, "triggerThrew")
  /\ UNCHANGED <<offRequest, campaign>>

\* triggerDraftCampaignImmediately: campaign.update(scheduledAt null, status READY)
TriggerWrite ==
  /\ api.pc = "trigger"
  /\ campaign' = [campaign EXCEPT ![api.camp].status = "READY",
                                  ![api.camp].scheduledAt = Null]
  /\ api' = ApiEnd(api.camp, "triggered")
  /\ UNCHANGED offRequest

\* a schedule check that lets the current instant pass
ScheduleFindNotBefore(c, scheduleDate) ==
  /\ ApiFree
  /\ campaign[c] # NoCampaign /\ campaign[c].status = "DRAFT"
  /\ ~(scheduleDate < now)
  /\ api' = [IdleApi EXCEPT !.pc = "schedule", !.camp = c, !.sched = scheduleDate,
                            !.calls = api.calls + 1]
  /\ UNCHANGED <<offRequest, campaign>>

\* scheduleDraftCampaign: campaign.findUnique; the campaign exists, is DRAFT and
\* scheduleDate is after new Date()
ScheduleFind(c, scheduleDate) ==
  /\ ApiFree
  /\ campaign[c] # NoCampaign /\ campaign[c].status = "DRAFT"
  /\ ~(scheduleDate <= now)
  /\ api' = [IdleApi EXCEPT !.pc = "schedule", !.camp = c, !.sched = scheduleDate,
                            !.calls = api.calls + 1]
  /\ UNCHANGED <<offRequest, campaign>>

\* scheduleDraftCampaign: 'Campaign not found', 'Campaign must be in DRAFT status' or
\* 'Schedule date must be in the future'
ScheduleThrows(c, scheduleDate) ==
  /\ ApiFree
  /\ campaign[c] = NoCampaign \/ campaign[c].status # "DRAFT" \/ scheduleDate <= now
  /\ api' = [ApiThrows(c, "scheduleThrew") EXCEPT !.sched = scheduleDate]
  /\ UNCHANGED <<offRequest, campaign>>

\* scheduleDraftCampaign: campaign.update(scheduledAt scheduleDate, status SCHEDULED)
ScheduleWrite ==
  /\ api.pc = "schedule"
  /\ campaign' = [campaign EXCEPT ![api.camp].status = "SCHEDULED",
                                  ![api.camp].scheduledAt = api.sched]
  /\ api' = [ApiEnd(api.camp, "scheduled") EXCEPT !.sched = api.sched]
  /\ UNCHANGED offRequest

Api ==
  \/ \E c \in Campaigns : UpdateCampaignFind(c) \/ SendCampaignFind(c) \/ RetryFailedFind(c)
  \/ UpdateCampaignWrite
  \/ SendCampaignClaim \/ SendCampaignCreateMany \/ SendCampaignEnqueue
  \/ RetryFailedUpdate \/ RetryFailedEnqueue

\* ------------------------------------------------------ emailQueue worker
offWorker == <<now, domain, env, campaign, bulkJob, isRunning, proc, sendSt, api, list, guard, adapter, hist>>

\* a job's attempt has thrown: BullMQ runs it again while attempts are left
Requeue(q, j) == IF j.left > 1 THEN q \cup {[j EXCEPT !.left = @ - 1]} ELSE q

\* the handler's reads, the last being emailSend.findFirst({campaignId, emailId});
\* without a row the handler throws
WorkerFind ==
  /\ worker.pc = "idle" /\ Busy < MaxActive
  /\ \E j \in jobs :
       /\ jobs' = jobs \ {j}
       /\ IF RowsOf(j.c, j.e) = {}
          THEN worker' = [IdleWorker EXCEPT !.pc = "catch", !.job = j]
          ELSE \E i \in RowsOf(j.c, j.e) :
                 worker' = [pc |-> "mark", job |-> j, row |-> i]
  /\ UNCHANGED <<offWorker, sends>>

\* emailSend.update(status SENT), before the provider is called
WorkerMarkSent ==
  /\ worker.pc = "mark"
  /\ sends' = SetStatus(sends, worker.row, "SENT", now)
  /\ worker' = [worker EXCEPT !.pc = "send"]
  /\ UNCHANGED <<offWorker, jobs>>

\* result.success: emailSend.update(status DELIVERED)
WorkerDelivered ==
  /\ worker.pc = "send"
  /\ sends' = SetStatus(sends, worker.row, "DELIVERED", now)
  /\ worker' = IdleWorker
  /\ UNCHANGED <<offWorker, jobs>>

\* no success: emailSend.update(status FAILED), then the handler throws
WorkerFailed ==
  /\ worker.pc = "send"
  /\ worker.job.e \in FailingEmails(worker.job.c)
  /\ sends' = SetStatus(sends, worker.row, "FAILED", now)
  /\ worker' = [worker EXCEPT !.pc = "catch"]
  /\ UNCHANGED <<offWorker, jobs>>

\* catch: emailSend.findFirst again; a row not yet FAILED is about to be updated
WorkerCatchFind ==
  /\ worker.pc = "catch"
  /\ LET j == worker.job
     IN \/ /\ \/ RowsOf(j.c, j.e) = {}
              \/ \E i \in RowsOf(j.c, j.e) : Row(i).status = "FAILED"
           /\ worker' = IdleWorker
           /\ jobs' = Requeue(jobs, j)
        \/ /\ \E i \in RowsOf(j.c, j.e) :
                /\ Row(i).status # "FAILED"
                /\ worker' = [worker EXCEPT !.pc = "catchUpdate", !.row = i]
           /\ UNCHANGED jobs
  /\ UNCHANGED <<offWorker, sends>>

\* catch: emailSend.update(status FAILED), then the rethrow
WorkerCatchUpdate ==
  /\ worker.pc = "catchUpdate"
  /\ sends' = SetStatus(sends, worker.row, "FAILED", now)
  /\ worker' = IdleWorker
  /\ jobs' = Requeue(jobs, worker.job)
  /\ UNCHANGED offWorker

Worker ==
  \/ WorkerFind \/ WorkerMarkSent \/ WorkerDelivered \/ WorkerFailed
  \/ WorkerCatchFind \/ WorkerCatchUpdate

\* ------------------------------------------------------------------ Next
\* the cron callbacks of P: their starts, and the steps of those in flight
TicksOf(P) == \E p \in P : FastTick(p) \/ SlowTick(p)

\* claim and dispatch pass: the callback's own steps, and the sendSingleEmail calls
\* of its batch
PassStepsOf(P) ==
  \E p \in P :
    \/ ClaimCampaign(p) \/ UpsertBulkJob(p) \/ UpsertThrows(p) \/ MarkFailed(p)
    \/ BatchDone(p)

SendLookupOf(P) == \E p \in P, e \in ListIds : SendFind(p, e)

SendStepsIn(P, E) ==
  \E p \in P, e \in E :
    \/ SendCreate(p, e) \/ SendSucceeds(p, e) \/ SendFails(p, e)
    \/ StatsIncrement(p, e) \/ StatsRead(p, e) \/ StatsComplete(p, e)
    \/ StatsMarkSent(p, e)

SendStepsOf(P) == SendStepsIn(P, ListIds)

PassOf(P) == PassStepsOf(P) \/ SendLookupOf(P) \/ SendStepsOf(P)

\* the 30-second callback after its claims: retry sweep and cleanup query
RetrySweepOf(P) == \E p \in P : RetryScan(p) \/ RetrySend(p) \/ CleanupScan(p)

\* the stall sweep's query
StallScanOf(P) == \E p \in P : StallScan(p)

DispatchOf(P) == PassOf(P) \/ RetrySweepOf(P) \/ StallScanOf(P)

\* what the stall sweep and the metrics sweep do to a campaign they find SENDING
RecoveryOf(P) ==
  \E p \in P : StallRefetch(p) \/ StallForceSent(p) \/ MetricsScan(p) \/ MetricsMarkSent(p)

StepsOf(P) == DispatchOf(P) \/ RecoveryOf(P)

MonitorOf(P) == TicksOf(P) \/ StepsOf(P)

\* rows are RETRYING only after retryFailedEmails
CleanupOf(P) == \E p \in P : CleanupRow(p)

\* the monitor alone, its callbacks overlapping
Next == Tick \/ MonitorOf(Procs)

Spec == Init /\ [][Next]_vars

\* the whole server: one callback per monitor cadence, the CampaignScheduler poll,
\* CampaignService requests and the queue worker
InitOps ==
  /\ list = [c \in Campaigns |-> OpsEmails]
  /\ InitCommon
  /\ domain = ValidDomain
  /\ guard = NoGuard

NextOps == Tick \/ MonitorOf(SoloProcs) \/ CleanupOf(SoloProcs) \/ Scheduler \/ Api \/ Worker

SpecOps == InitOps /\ [][NextOps]_vars

\* the monitor, one callback per cadence, over domains that pass validation and
\* domains that do not
DomainConfigs ==
  {ValidDomain,
   [ValidDomain EXCEPT !.smtpComplete = FALSE],
   [ValidDomain EXCEPT !.verified = FALSE],
   [ValidDomain EXCEPT !.smtpProvider = "sendgrid"]}

InitDomains ==
  /\ list \in [Campaigns -> 1..NumEmails]
  /\ InitCommon
  /\ domain \in DomainConfigs
  /\ guard = NoGuard

NextDomains == Tick \/ MonitorOf(SoloProcs)

SpecDomains == InitDomains /\ [][NextDomains]_vars

\* validateDomainForSending on its own, over domain rows, environments and histories
\* of earlier campaigns of the domain
GuardDomains ==
  {[smtpProvider |-> n, verified |-> f[1], fromEmail |-> f[2], smtpComplete |-> f[3],
    enableDomainWarmup |-> w, dailyLimit |-> d] :
     n \in ProviderNames,
     f \in {<<TRUE, TRUE, TRUE>>, <<FALSE, TRUE, TRUE>>, <<TRUE, FALSE, TRUE>>,
            <<TRUE, TRUE, FALSE>>},
     w \in BOOLEAN, d \in {0, 1, 100, 1000, 2000}}

GuardEnvs == {AllKeys, [resend |-> FALSE, mailtrap |-> FALSE]}

PastCampaigns ==
  {[status |-> "SENT", sentAt |-> GuardNow, size |-> n] : n \in {1, 99, 100, 900, 1000}}
    \cup {[status |-> "SENT", sentAt |-> GuardNow - WARMUP_WINDOW_MINUTES, size |-> 100],
          [status |-> "SENT", sentAt |-> GuardNow - WARMUP_WINDOW_MINUTES - 1, size |-> 1000],
          [status |-> "FAILED", sentAt |-> GuardNow, size |-> 1000]}

Histories == UNION {[1..n -> PastCampaigns] : n \in 0..MaxPast}

InitGuard ==
  /\ list = [c \in Campaigns |-> NumEmails]
  /\ now = GuardNow
  /\ env \in GuardEnvs
  /\ domain \in GuardDomains
  /\ campaign = [c \in Campaigns |-> [status |-> "DRAFT", scheduledAt |-> Null, sentAt |-> Null]]
  /\ guard \in [camps : Histories, result : {"none"}]
  /\ InitStore

\* validateDomainForSending(domain) is called and returns
Validate ==
  /\ guard.result = "none"
  /\ guard' = [guard EXCEPT !.result =
        IF validateDomainForSending(domain, env, guard.camps, now) THEN "pass" ELSE "reject"]
  /\ UNCHANGED <<now, domain, env, campaign, sends, bulkJob, isRunning, proc, sendSt,
                 jobs, worker, api, list, adapter, hist>>

NextGuard == Validate

SpecGuard == InitGuard /\ [][NextGuard]_vars

\* the monitor's callbacks one after another, never two in flight, with updateCampaign
\* requests arriving at any time.  A campaign with recipients is then SENDING only
\* while its pass runs, so the sweeps over SENDING campaigns find nothing to recover.
NoneInFlight == \A q \in SoloProcs : proc[q].pc = "idle"
SeqFastTick(p) == NoneInFlight /\ FastTick(p)
SeqSlowTick(p) == NoneInFlight /\ SlowTick(p)

UpdateRequests == (\E c \in Campaigns : UpdateCampaignFind(c)) \/ UpdateCampaignWrite

NextSeq ==
  \/ Tick
  \/ \E p \in SoloProcs : SeqFastTick(p) \/ SeqSlowTick(p)
  \/ DispatchOf(SoloProcs)
  \/ UpdateRequests

SpecSeq == Init /\ [][NextSeq]_vars

\* the 1-minute cadence of the monitor, one callback at a time, beside sendCampaign
\* requests and the queue worker.  The cron schedule keeps firing, a callback in
\* flight keeps running, and the store does not reject the same upsert for ever.
SlowSolo == SoloProcs \cap SlowProcs
SendRequests ==
  \/ \E c \in Campaigns : SendCampaignFind(c)
  \/ SendCampaignClaim \/ SendCampaignCreateMany \/ SendCampaignEnqueue

SlowStepsOf(P) == PassOf(P) \/ StallScanOf(P) \/ RecoveryOf(P)

NextStall ==
  \/ Tick
  \/ \E p \in SlowSolo : SlowTick(p)
  \/ SlowStepsOf(SlowSolo)
  \/ SendRequests
  \/ Worker

FairStall ==
  \A p \in SlowSolo :
    /\ WF_vars(SlowTick(p))
    /\ WF_vars(SlowStepsOf({p}))
    /\ SF_vars(UpsertBulkJob(p))

SpecStall == InitOps /\ [][NextStall]_vars /\ FairStall

\* one 30-second callback over a list of one address, of a few and of more than a batch, on a domain whose provider
\* resolves and on one whose provider does not.  Of the calls of a batch at most
\* MaxOpenSends are past their lookup at a time.
FastSolo == SoloProcs \cap FastProcs

OpenSends(p) == Cardinality({e \in Emails : sendSt[p][e].pc \notin {"none", "find", "done"}})

\* the calls of a batch start in the order of the list
NextSendFind(p, e) ==
  /\ e \in Emails
  /\ OpenSends(p) < MaxOpenSends
  /\ \A f \in Emails : sendSt[p][f].pc = "find" => e <= f
  /\ SendFind(p, e)

InitBatches ==
  /\ list \in [Campaigns -> {1, NumEmails, MaxEmails}]
  /\ InitCommon
  /\ domain \in {ValidDomain, [ValidDomain EXCEPT !.smtpComplete = FALSE]}
  /\ guard = NoGuard

NextBatches ==
  \/ Tick
  \/ \E p \in FastSolo : FastTick(p)
  \/ PassStepsOf(FastSolo)
  \/ \E p \in FastSolo, e \in EmailIds : NextSendFind(p, e)
  \/ SendStepsIn(FastSolo, EmailIds)
  \/ RetrySweepOf(FastSolo)

SpecBatches == InitBatches /\ [][NextBatches]_vars

\* one 30-second callback and the requests that delete, trigger and schedule a
\* campaign, over an id that names a campaign and one that names none
ScheduleDates == {0, SchedTime, MaxTime + 1}

DeleteRequests ==
  (\E c \in Campaigns : DeleteCampaignFind(c) \/ DeleteCampaignThrows(c)) \/ DeleteCampaignWrite

TriggerRequests ==
  (\E c \in Campaigns : TriggerFind(c) \/ TriggerThrows(c)) \/ TriggerWrite

ScheduleRequests ==
  \/ \E c \in Campaigns, scheduleDate \in ScheduleDates :
       ScheduleFind(c, scheduleDate) \/ ScheduleThrows(c, scheduleDate)
  \/ ScheduleWrite

InitRequests ==
  /\ list = [c \in Campaigns |-> OpsEmails]
  /\ now = 0
  /\ env = AllKeys
  /\ campaign \in [Campaigns -> InitCampaigns \cup {NoCampaign}]
  /\ InitStore
  /\ domain = ValidDomain
  /\ guard = NoGuard

NextRequests ==
  \/ Tick
  \/ \E p \in FastSolo : FastTick(p)
  \/ PassOf(FastSolo)
  \/ RetrySweepOf(FastSolo)
  \/ DeleteRequests
  \/ TriggerRequests
  \/ ScheduleRequests

SpecRequests == InitRequests /\ [][NextRequests]_vars

\* one 30-second callback over a list of NumEmails addresses, retryFailedEmails
\* requests and the emailQueue worker
RetryRequests ==
  (\E c \in Campaigns : RetryFailedFind(c)) \/ RetryFailedUpdate \/ RetryFailedEnqueue

NextRetry ==
  \/ Tick
  \/ \E p \in FastSolo : FastTick(p)
  \/ PassOf(FastSolo)
  \/ RetrySweepOf(FastSolo)
  \/ CleanupOf(FastSolo)
  \/ RetryRequests
  \/ Worker

SpecRetry == Init /\ [][NextRetry]_vars

\* the same handlers over a list of OpsEmails addresses and a clock that runs past the backoff of an attempt with three
\* retries.  The cron schedule keeps firing, and a callback, a request and a job in
\* flight keep running; the queue need not hand a waiting job to the worker.
LongSteps == {120}
LongTick ==
  /\ \E d \in LongSteps : now + d <= MaxLongTime /\ now' = now + d
  /\ UNCHANGED <<offMonitor, domain, env, campaign, sends, bulkJob, isRunning, proc, sendSt, hist>>

FastStepsOf(P) == PassOf(P) \/ RetrySweepOf(P) \/ CleanupOf(P)

NextCleanup ==
  \/ LongTick
  \/ \E p \in FastSolo : FastTick(p)
  \/ FastStepsOf(FastSolo)
  \/ RetryRequests
  \/ Worker

FairCleanup ==
  /\ \A p \in FastSolo : WF_vars(FastTick(p)) /\ WF_vars(FastStepsOf({p}))
  /\ WF_vars(RetryFailedUpdate \/ RetryFailedEnqueue)
  /\ WF_vars(WorkerMarkSent \/ WorkerDelivered \/ WorkerFailed
               \/ WorkerCatchFind \/ WorkerCatchUpdate)

SpecCleanup == InitOps /\ [][NextCleanup]_vars /\ FairCleanup

\* the callbacks of both cadences one after another, where a counter update of
\* updateBulkJobStats may be rejected by the store.  Both cron schedules keep firing, a
\* callback in flight keeps running, and the store does not reject the same upsert for ever.
StatsThrowsOf(P) == \E p \in P, e \in ListIds : StatsIncrementThrows(p, e)

NextCounters ==
  \/ Tick
  \/ \E p \in SoloProcs : SeqFastTick(p) \/ SeqSlowTick(p)
  \/ StepsOf(SoloProcs)
  \/ StatsThrowsOf(SoloProcs)

FairCounters ==
  \A p \in SoloProcs :
    /\ WF_vars(SeqFastTick(p) \/ SeqSlowTick(p))
    /\ WF_vars(StepsOf({p}) \/ StatsThrowsOf({p}))
    /\ SF_vars(UpsertBulkJob(p))

SpecCounters == Init /\ [][NextCounters]_vars /\ FairCounters

\* SpecBatches over every size of list, the empty one included
InitLists ==
  /\ list \in [Campaigns -> {0, 1, NumEmails, MaxEmails}]
  /\ InitCommon
  /\ domain \in {ValidDomain, [ValidDomain EXCEPT !.smtpComplete = FALSE]}
  /\ guard = NoGuard

SpecLists == InitLists /\ [][NextBatches]_vars

\* the callbacks of both cadences one after another over a list of one batch, on a
\* domain whose provider resolves and on one whose provider does not, and over a list
\* of two batches on the domain whose provider resolves, with a restart
\* of the server process in the middle of a dispatch pass.  Time passes, both cron
\* schedules keep firing, a callback in flight keeps running, and the store does not
\* reject the same upsert for ever.
\* the process ends and starts again: every callback in flight is gone, isRunning is
\* false in the new DatabaseMonitorService, the store keeps what was written.  The
\* restart falls before the first batch of a pass or somewhere in its last one.
Restart ==
  /\ hist.restarts < MaxRestarts
  /\ \E p \in SoloProcs :
       \/ proc[p].pc = "upsert"
       \/ proc[p].pc = "batch" /\ proc[p].batch = NumBatches(proc[p].camp) - 1
  /\ proc' = [p \in AllProcs |-> IdleProc]
  /\ sendSt' = [p \in Procs |-> NoSends]
  /\ isRunning' = FALSE
  /\ hist' = [hist EXCEPT !.restarts = @ + 1]
  /\ UNCHANGED <<offMonitor, now, domain, env, campaign, sends, bulkJob>>

\* the batch's calls of sendSingleEmail taken one after another, in list order
SerialSendFind(p, e) ==
  /\ OpenSends(p) = 0
  /\ NextSendFind(p, e)

HealStepsOf(P) ==
  \/ PassStepsOf(P)
  \/ \E p \in P, e \in EmailIds : SerialSendFind(p, e)
  \/ SendStepsIn(P, EmailIds)
  \/ RetrySweepOf(P) \/ RecoveryOf(P)

NextHeal ==
  \/ LongTick
  \/ \E p \in SoloProcs : SeqFastTick(p) \/ SeqSlowTick(p)
  \/ HealStepsOf(SoloProcs)
  \/ Restart

FairHeal ==
  /\ WF_vars(LongTick)
  /\ \A p \in SoloProcs :
       /\ WF_vars(SeqFastTick(p) \/ SeqSlowTick(p))
       /\ WF_vars(HealStepsOf({p}))
       /\ SF_vars(UpsertBulkJob(p))

InitHeal ==
  /\ list \in [Campaigns -> {NumEmails, MaxEmails}]
  /\ now = 0
  /\ env = AllKeys
  /\ campaign = [c \in Campaigns |-> [status |-> "READY", scheduledAt |-> Null, sentAt |-> Null]]
  /\ InitStore
  /\ domain \in {ValidDomain, [ValidDomain EXCEPT !.smtpComplete = FALSE]}
  /\ \A c \in Campaigns : list[c] = MaxEmails => domain.smtpComplete
  /\ guard = NoGuard

SpecHeal == InitHeal /\ [][NextHeal]_vars /\ FairHeal

\* ------------------------------------------------------- NodemailerProvider
offAdapter ==
  <<domain, env, campaign, sends, bulkJob, isRunning, proc, sendSt, jobs, worker, api,
    list, guard, hist>>

\* connectionMetrics.coolingUntil && connectionMetrics.coolingUntil > new Date()
Cooling == adapter.coolingUntil # Null /\ adapter.coolingUntil > now

\* how a call of send ends
Ended(s, result) == [adapter.call[s] EXCEPT !.pc = "idle", !.attempt = 0, !.out = result]

\* a send without the cooling check
ProviderSendNoCooling(s, valid) ==
  /\ adapter.call[s].pc = "idle" /\ adapter.call[s].calls < MaxSends
  /\ LET c == [adapter.call[s] EXCEPT !.calls = @ + 1, !.valid = valid, !.out = "none"]
     IN adapter' = [adapter EXCEPT !.call[s] =
          IF ~valid THEN [c EXCEPT !.out = "invalid"]
          ELSE [c EXCEPT !.pc = "mail", !.attempt = 1]]
  /\ UNCHANGED <<offAdapter, now>>

\* send: validateEmailMessage, the cooling check, and the first transporter.sendMail
ProviderSend(s, valid) ==
  /\ adapter.call[s].pc = "idle" /\ adapter.call[s].calls < MaxSends
  /\ LET c == [adapter.call[s] EXCEPT !.calls = @ + 1, !.valid = valid, !.out = "none"]
     IN adapter' = [adapter EXCEPT !.call[s] =
          IF ~valid THEN [c EXCEPT !.out = "invalid"]
          ELSE IF Cooling THEN [c EXCEPT !.out = "cooling"]
          ELSE [c EXCEPT !.pc = "mail", !.attempt = 1]]
  /\ UNCHANGED <<offAdapter, now>>

\* send: sendMail resolved; successCount++ and the result is returned
SendMailReturns(s) ==
  /\ adapter.call[s].pc = "mail"
  /\ adapter' = [adapter EXCEPT !.successCount = @ + 1, !.call[s] = Ended(s, "sent")]
  /\ UNCHANGED <<offAdapter, now>>

\* send: sendMail rejected with a connection error; errorCount++, then the backoff or,
\* on the last attempt, activateCoolingPeriod and 'Failed after 3 attempts'
SendMailConnectionError(s) ==
  /\ adapter.call[s].pc = "mail"
  /\ IF adapter.call[s].attempt = MAX_RETRIES
     THEN adapter' = [adapter EXCEPT !.errorCount = @ + 1,
                                     !.coolingUntil = now + COOLING_PERIOD,
                                     !.call[s] = Ended(s, "failed")]
     ELSE adapter' = [adapter EXCEPT !.errorCount = @ + 1, !.call[s].pc = "backoff"]
  /\ UNCHANGED <<offAdapter, now>>

\* send: sendMail rejected with another error, which is thrown on at once
SendMailOtherError(s) ==
  /\ adapter.call[s].pc = "mail"
  /\ adapter' = [adapter EXCEPT !.errorCount = @ + 1, !.call[s] = Ended(s, "error")]
  /\ UNCHANGED <<offAdapter, now>>

\* send: the backoff timer has fired; after the second attempt the transporter is
\* recreated first, otherwise the next sendMail is issued
BackoffOver(s) ==
  /\ adapter.call[s].pc = "backoff"
  /\ adapter' = IF adapter.call[s].attempt = 2
                THEN [adapter EXCEPT !.call[s].pc = "recreate"]
                ELSE [adapter EXCEPT !.call[s].pc = "mail", !.call[s].attempt = @ + 1]
  /\ UNCHANGED <<offAdapter, now>>

\* recreateTransporter: transporter.verify resolved; the next sendMail is issued
RecreateReturns(s) ==
  /\ adapter.call[s].pc = "recreate"
  /\ adapter' = [adapter EXCEPT !.call[s].pc = "mail", !.call[s].attempt = @ + 1]
  /\ UNCHANGED <<offAdapter, now>>

\* recreateTransporter: transporter.verify rejected; the error leaves send
RecreateThrows(s) ==
  /\ adapter.call[s].pc = "recreate"
  /\ adapter' = [adapter EXCEPT !.call[s] = Ended(s, "error")]
  /\ UNCHANGED <<offAdapter, now>>

\* a minute passes
AdapterTick ==
  /\ now < MaxCoolTime
  /\ now' = now + 1
  /\ UNCHANGED <<offAdapter, adapter>>

\* one adapter shared by the callers of Senders, its sends interleaving at their awaits
NextAdapter ==
  \/ AdapterTick
  \/ \E s \in Senders, valid \in BOOLEAN : ProviderSend(s, valid)
  \/ \E s \in Senders :
       \/ SendMailReturns(s) \/ SendMailConnectionError(s) \/ SendMailOtherError(s)
       \/ BackoffOver(s) \/ RecreateReturns(s) \/ RecreateThrows(s)

SpecAdapter == Init /\ [][NextAdapter]_vars

\* sendSingleEmail's provider: configureProviderForDomain ends in
\* EmailProviderFactory.createProvider, which constructs a new NodemailerProvider, and
\* provider.send runs on that instance.  The instance of the send before is dropped;
\* hist.cooling keeps the latest coolingUntil that any of the instances has set.
MonitorSend(s, valid) ==
  /\ \A t \in Senders : adapter.call[t].pc = "idle"
  /\ adapter.call[s].calls < MaxSends
  /\ LET fresh == [NewAdapter EXCEPT !.call = adapter.call]
         c == [adapter.call[s] EXCEPT !.calls = @ + 1, !.valid = valid, !.out = "none"]
     IN adapter' = [fresh EXCEPT !.call[s] =
          IF ~valid THEN [c EXCEPT !.out = "invalid"]
          ELSE IF fresh.coolingUntil # Null /\ fresh.coolingUntil > now
               THEN [c EXCEPT !.out = "cooling"]
          ELSE [c EXCEPT !.pc = "mail", !.attempt = 1]]
  /\ hist' = [hist EXCEPT !.cooling = IF adapter.coolingUntil # Null
                                      THEN adapter.coolingUntil ELSE @]
  /\ UNCHANGED <<now, domain, env, campaign, sends, bulkJob, isRunning, proc, sendSt,
                 jobs, worker, api, list, guard>>

\* the monitor's sends for one domain, one after another, each on its own provider
NextProviders ==
  \/ AdapterTick
  \/ \E s \in Senders, valid \in BOOLEAN : MonitorSend(s, valid)
  \/ \E s \in Senders :
       \/ SendMailReturns(s) \/ SendMailConnectionError(s) \/ SendMailOtherError(s)
       \/ BackoffOver(s) \/ RecreateReturns(s) \/ RecreateThrows(s)

SpecProviders == Init /\ [][NextProviders]_vars

\* ------------------------------------------------------------- properties
\* C1: there is at most one emailSend row for each (campaign, recipient) pair.
C1_OneRowPerPair == \A c \in Campaigns, e \in Emails : Len(sends[c][e]) <= 1

\* C2: once a campaign is SENT or FAILED, no step changes its status to DRAFT, READY,
\* SCHEDULED or SENDING.
C2_TerminalStatusStays ==
  [][\A c \in Campaigns :
       campaign[c].status \in {"SENT", "FAILED"}
         => campaign'[c].status \in {"SENT", "FAILED"}]_vars

\* the last batch of the dispatch pass of callback p has settled
PassSettled(p) ==
  /\ proc[p].pc = "batch"
  /\ proc[p].batch + 1 = NumBatches(proc[p].camp)
  /\ \A e \in Emails : sendSt[p][e].pc \in {"none", "done"}

\* C3: in each dispatch pass the completion step (BulkJob marked completed, campaign
\* set to SENT) is performed exactly once: never twice, and once when the pass's last
\* batch has settled.
C3_CompletionExactlyOnce ==
  \A p \in Procs :
    /\ hist.completions[p] <= 1
    /\ PassSettled(p) => hist.completions[p] = 1

\* C4: processedEmails of a campaign's BulkJob never decreases.
C4_ProcessedMonotonic ==
  [][\A c \in Campaigns :
       bulkJob[c].exists => bulkJob'[c].processedEmails >= bulkJob[c].processedEmails]_vars

\* C5: a campaign leaving DRAFT, READY or SCHEDULED is set to SENDING by at most one
\* poller.
C5_FirstClaimOnce == \A c \in Campaigns : hist.claims[c] <= 1

\* C6: of each monitor cadence at most one cycle is running at any time.
C6_SingleFlightPerCadence ==
  /\ Cardinality({p \in FastProcs : proc[p].pc # "idle"}) <= 1
  /\ Cardinality({p \in SlowProcs : proc[p].pc # "idle"}) <= 1

\* C7: a campaign claimed while its domain fails validation is never SENDING, and has
\* no emailSend row and no bulkEmailJob row.
C7_InvalidDomainNeverDispatched ==
  \A c \in Campaigns :
    hist.invalidClaim[c] =>
      /\ campaign[c].status # "SENDING"
      /\ RowsOfCampaign(c) = {}
      /\ ~bulkJob[c].exists

\* the trailing 30-day sent volume of a history of campaigns, and the parts of a domain
\* row that validation reads before the warmup check
Volume30(camps, t) ==
  SumSizes(SelectSeq(camps, LAMBDA x : x.status = "SENT"
                                       /\ x.sentAt >= t - WARMUP_WINDOW_MINUTES))
ConfigAccepted(d, e) ==
  validateDomainForSending([d EXCEPT !.enableDomainWarmup = FALSE], e, <<>>, 0)
EffectiveLimit(d) == IF d.dailyLimit = 0 THEN DEFAULT_DAILY_LIMIT ELSE d.dailyLimit

C9_RetriesAtMostThree == \A i \in AllRows : Row(i).retries <= MAX_RETRY_ATTEMPTS

\* C10: whenever processedEmails = totalEmails, every valid recipient has an attempt
\* that is SENT or FAILED and no attempt of the campaign is PENDING.
C10_ProcessedAllImpliesTerminal ==
  \A c \in Campaigns :
    (bulkJob[c].exists /\ bulkJob[c].processedEmails = bulkJob[c].totalEmails) =>
      /\ \A e \in ListEmails(c) : \E i \in RowsOf(c, e) : Row(i).status \in {"SENT", "FAILED"}
      /\ \A i \in RowsOfCampaign(c) : Row(i).status # "PENDING"

\* C11: when dispatch passes run one after another over the same recipients, a later
\* pass creates no emailSend row: once a pass has completed, the campaign has exactly
\* one row for each valid recipient, also during and after every further pass.
C11_SequentialPassAddsNoRow ==
  \A c \in Campaigns :
    hist.passes[c] >= 1 =>
      /\ \A e \in ListEmails(c) : Len(sends[c][e]) = 1
      /\ Cardinality(RowsOfCampaign(c)) = Cardinality(ListEmails(c))

\* C11, its case: a second pass over the campaign has completed, one row per recipient.
C11_SecondPassCompleted ==
  \E c \in Campaigns :
    /\ hist.passes[c] = 2
    /\ Cardinality(RowsOfCampaign(c)) = Cardinality(ListEmails(c))

\* C12: a campaign that is DRAFT or READY with scheduledAt in the future is not claimed:
\* no step sets it to SENDING while its scheduledAt is later than now.
C12_FutureScheduleUntouched ==
  [][\A c \in Campaigns :
       (/\ campaign[c].status \in {"DRAFT", "READY"}
        /\ campaign[c].scheduledAt # Null
        /\ campaign[c].scheduledAt > now)
         => campaign'[c].status # "SENDING"]_vars

\* the campaign has no attempt that is PENDING or RETRYING
AllAttemptsTerminal(c) ==
  \A i \in RowsOfCampaign(c) : Row(i).status \notin {"PENDING", "RETRYING"}

\* the campaign's sentAt has been stamped anew within the stall threshold
Restamped(c) == campaign[c].sentAt # Null /\ campaign[c].sentAt > now - STALL_MINUTES

Dispatched(c, e) == \E i \in RowsOf(c, e) : Row(i).status \in {"SENT", "FAILED"}

\* C14: a recipient's failure stops neither its batch nor the later batches and does
\* not fail the campaign: when the last batch of a pass has settled every recipient of
\* the list has been dispatched, and a campaign that is FAILED has no attempt at all.
C14_RecipientFailureIsolated ==
  \A c \in Campaigns :
    /\ campaign[c].status = "FAILED" => RowsOfCampaign(c) = {}
    /\ \A p \in Procs :
         (PassSettled(p) /\ proc[p].camp = c) => \A e \in ListEmails(c) : Dispatched(c, e)

\* C14, its case: the pass has settled its second batch although a recipient of the
\* first batch failed; every recipient was dispatched and the campaign is not FAILED.
C14_LaterBatchAfterFailure ==
  \E c \in Campaigns, p \in Procs :
    /\ PassSettled(p) /\ proc[p].camp = c /\ proc[p].batch >= 1
    /\ \E e \in BatchEmails(c, 0) : \E i \in RowsOf(c, e) : Row(i).status = "FAILED"
    /\ \A e \in ListEmails(c) : Dispatched(c, e)
    /\ campaign[c].status # "FAILED"

\* no send of the campaign has failed so far
EverySendSucceeded(c) ==
  \A i \in RowsOfCampaign(c) : Row(i).retries = 0 /\ Row(i).status # "FAILED"

\* C15: once a campaign of n >= 1 valid recipients has been claimed and its dispatch
\* pass has ended with no send having failed, the campaign is SENT, it has n attempts,
\* all SENT, and its BulkJob is completed with totalEmails = processedEmails =
\* successCount = n and failureCount = 0.
C15_AllSucceedEndsSent ==
  \A c \in Campaigns :
    (hist.passes[c] = 1 /\ EverySendSucceeded(c)) =>
      LET n == Cardinality(ListEmails(c))
      IN /\ campaign[c].status = "SENT"
         /\ Cardinality(RowsOfCampaign(c)) = n
         /\ \A i \in RowsOfCampaign(c) : Row(i).status = "SENT"
         /\ bulkJob[c] = [exists |-> TRUE, status |-> "completed", totalEmails |-> n,
                           processedEmails |-> n, successCount |-> n, failureCount |-> 0]

\* C15, its case: a pass over a list of more than one batch has ended, no send failed
C15_PassOverTwoBatchesEnded ==
  \E c \in Campaigns :
    /\ hist.passes[c] = 1 /\ EverySendSucceeded(c)
    /\ Cardinality(ListEmails(c)) > BATCH_SIZE
    /\ campaign[c].status = "SENT" /\ bulkJob[c].successCount = Cardinality(ListEmails(c))

\* the attempts of the campaign that are SENT
SentRows(c) == {i \in RowsOfCampaign(c) : Row(i).status = "SENT"}

\* C16: when an attempt that failed on its first send has been sent by the retry sweep
\* and the sweep has returned, every attempt of the campaign being SENT, the campaign
\* is SENT and the successCount of its BulkJob equals the number of SENT attempts.
C16_RetryCorrectsCounters ==
  \A c \in Campaigns :
    ( /\ hist.passes[c] = 1
      /\ \A p \in Procs : proc[p].pc = "idle"
      /\ \A i \in RowsOfCampaign(c) : Row(i).status = "SENT"
      /\ \E i \in RowsOfCampaign(c) : Row(i).retries = 1 )
    => /\ campaign[c].status = "SENT"
       /\ bulkJob[c].successCount = Cardinality(SentRows(c))

\* C17: no campaign is deleted while its status is SENDING, whatever the interleaving
\* of the delete request with the monitor's claim.
C17_SendingNeverDeleted ==
  [][\A c \in Campaigns :
       campaign[c].status = "SENDING" => campaign'[c] # NoCampaign]_vars

\* C18: triggerDraftCampaignImmediately goes on to its write only for a campaign that
\* exists and is DRAFT, the write sets status READY and scheduledAt null and nothing
\* else, and a call that throws was made for a missing or non-DRAFT campaign and
\* changes nothing.
C18_TriggerDraftContract ==
  [][\A c \in Campaigns :
       /\ (api.pc = "idle" /\ api'.pc = "trigger" /\ api'.camp = c)
            => (campaign[c] # NoCampaign /\ campaign[c].status = "DRAFT")
       /\ (api.pc = "trigger" /\ api.camp = c /\ api'.pc = "idle")
            => /\ api'.done = "triggered"
               /\ campaign' = [campaign EXCEPT ![c].status = "READY", ![c].scheduledAt = Null]
               /\ sends' = sends /\ bulkJob' = bulkJob
       /\ (api.pc = "idle" /\ api'.calls = api.calls + 1 /\ api'.camp = c
             /\ api'.done = "triggerThrew")
            => /\ campaign[c] = NoCampaign \/ campaign[c].status # "DRAFT"
               /\ campaign' = campaign /\ sends' = sends /\ bulkJob' = bulkJob
       /\ (api.pc = "idle" /\ api'.calls = api.calls + 1 /\ api'.camp = c
             /\ campaign[c] # NoCampaign /\ campaign[c].status = "DRAFT")
            => api'.done # "triggerThrew"]_vars

\* C18, its case: a trigger request made after minute 0 has been written: the campaign
\* is READY and has no schedule
C18_Triggered ==
  \E c \in Campaigns :
    /\ api.done = "triggered" /\ api.camp = c
    /\ campaign[c].status = "READY" /\ campaign[c].scheduledAt = Null /\ now > 0

\* C19: scheduleDraftCampaign goes on to its write only for a campaign that exists and
\* is DRAFT and a date strictly after now, the write sets status SCHEDULED and
\* scheduledAt to that date and nothing else, and a call that throws was made for a
\* missing or non-DRAFT campaign or a date not after now and changes nothing.
C19_ScheduleDraftContract ==
  [][\A c \in Campaigns :
       /\ (api.pc = "idle" /\ api'.pc = "schedule" /\ api'.camp = c)
            => /\ campaign[c] # NoCampaign /\ campaign[c].status = "DRAFT"
               /\ api'.sched > now
       /\ (api.pc = "schedule" /\ api.camp = c /\ api'.pc = "idle")
            => /\ api'.done = "scheduled"
               /\ campaign' = [campaign EXCEPT ![c].status = "SCHEDULED",
                                               ![c].scheduledAt = api.sched]
               /\ sends' = sends /\ bulkJob' = bulkJob
       /\ (api.pc = "idle" /\ api'.calls = api.calls + 1 /\ api'.camp = c
             /\ api'.done = "scheduleThrew")
            => /\ \/ campaign[c] = NoCampaign
                  \/ campaign[c].status # "DRAFT"
                  \/ api'.sched <= now
               /\ campaign' = campaign /\ sends' = sends /\ bulkJob' = bulkJob
       /\ (api.pc = "idle" /\ api'.calls = api.calls + 1 /\ api'.camp = c
             /\ campaign[c] # NoCampaign /\ campaign[c].status = "DRAFT"
             /\ api'.sched > now)
            => api'.done # "scheduleThrew"]_vars

\* C19, its case: a schedule request made at minute 30 for a later date has been written
C19_Scheduled ==
  \E c \in Campaigns :
    /\ api.done = "scheduled" /\ api.camp = c /\ now = SchedTime
    /\ campaign[c].status = "SCHEDULED" /\ campaign[c].scheduledAt = MaxTime + 1

\* C19, the boundary: a request whose date is the current minute has thrown
C19_RefusedAtNow ==
  \E c \in Campaigns :
    /\ api.done = "scheduleThrew" /\ api.camp = c /\ api.sched = now
    /\ campaign[c].status = "DRAFT"

\* the attempts of the campaign that are FAILED or BOUNCED
FailedRows(c) == {i \in RowsOfCampaign(c) : Row(i).status \in {"FAILED", "BOUNCED"}}

\* C20: retryFailedEmails takes exactly the campaign's attempts that are FAILED or
\* BOUNCED, whatever their backoff; its update sets those to RETRYING with one more
\* retry and changes no other attempt; it then adds one job for each of them and no
\* other job; the campaign's status is not changed by any of its steps.
C20_RetryFailedContract ==
  [][\A c \in Campaigns :
       /\ (api.pc = "idle" /\ api'.pc = "retryUpdate" /\ api'.camp = c)
            => /\ api'.rows = FailedRows(c)
               /\ sends' = sends /\ campaign' = campaign /\ jobs' = jobs
       /\ (api.pc = "retryUpdate" /\ api.camp = c /\ api'.pc = "retryEnqueue")
            => /\ \A d \in Campaigns, e \in Emails :
                    /\ Len(sends'[d][e]) = Len(sends[d][e])
                    /\ \A k \in 1..Len(sends[d][e]) :
                         IF RowId(d, e, k) \in api.rows
                         THEN /\ sends'[d][e][k].status = "RETRYING"
                              /\ sends'[d][e][k].retries = sends[d][e][k].retries + 1
                         ELSE sends'[d][e][k] = sends[d][e][k]
               /\ campaign' = campaign /\ jobs' = jobs
       /\ (api.pc = "retryEnqueue" /\ api.camp = c /\ api'.pc = "idle")
            => /\ jobs' = jobs \cup {[c |-> c, e |-> i.e, left |-> JOB_ATTEMPTS] : i \in api.rows}
               /\ sends' = sends /\ campaign' = campaign]_vars

\* C20, its case: in the minute in which an attempt failed, long before its backoff has
\* elapsed, the request has set it to RETRYING and added its job; the campaign's other
\* attempt is SENT as it was
C20_RetriedBeforeBackoff ==
  \E c \in Campaigns : \E i, o \in RowsOfCampaign(c) :
    /\ api.calls = 1 /\ api.pc = "idle" /\ now = 0
    /\ Row(i).status = "RETRYING" /\ Row(i).retries = 2
    /\ \E j \in jobs : j.c = c /\ j.e = i.e
    /\ o.e # i.e /\ Row(o).status = "SENT" /\ Row(o).retries = 0
    /\ \A j \in jobs : j.e # o.e

\* configureProviderForDomain: domain.smtpProvider?.toLowerCase() || 'custom'
DomainProviderName(d) == IF d.smtpProvider = "none" THEN "custom" ELSE Lower[d.smtpProvider]

\* the provider names configureProviderForDomain has a case of its own for
SupportedProviders == {"custom", "resend", "mailtrap"}

\* C21: resolving the adapter of a domain whose provider name is outside custom, resend,
\* mailtrap fails before any send is attempted: no attempt of a campaign of such a
\* domain is being sent or has been sent.
C21_UnsupportedProviderNeverSends ==
  DomainProviderName(domain) \notin SupportedProviders =>
    /\ \A c \in Campaigns : \A i \in RowsOfCampaign(c) : Row(i).status # "SENT"
    /\ \A p \in Procs, e \in Emails : sendSt[p][e].pc # "incOk"

\* the step is the start of a call of send by s; the step issues a sendMail for s
CallStarts(s) == adapter'.call[s].calls = adapter.call[s].calls + 1
IssuesMail(s) == adapter'.call[s].pc = "mail" /\ adapter.call[s].pc # "mail"

\* C22, as stated: while the adapter is cooling every send on it fails with the
\* cooling error and no sendMail is issued.
C22_CoolingSendsFailFast ==
  [][\A s \in Senders :
       Cooling => /\ CallStarts(s) => adapter'.call[s].out = "cooling"
                  /\ ~IssuesMail(s)]_vars

\* C22, amended: a call of send made while the adapter is cooling ends at once, issuing
\* no sendMail, with the cooling error when its message is valid and with the
\* validation error otherwise; a sendMail issued while the adapter is cooling belongs
\* to a call that was in its retry loop already.
C22_CoolingCallFailsFast ==
  [][\A s \in Senders :
       Cooling =>
         /\ CallStarts(s) =>
              /\ adapter'.call[s].pc = "idle"
              /\ adapter'.call[s].out = IF adapter'.call[s].valid THEN "cooling" ELSE "invalid"
         /\ IssuesMail(s) => adapter.call[s].pc \in {"backoff", "recreate"}]_vars

\* C22, its case: a valid message was refused with the cooling error while the adapter
\* is cooling after a send that failed three times
C22_RefusedWhileCooling ==
  /\ Cooling
  /\ \E s, t \in Senders :
       /\ adapter.call[s].out = "cooling" /\ adapter.call[s].valid
       /\ adapter.call[t].out = "failed"

\* every valid recipient of the campaign's list has an attempt and every attempt of the
\* campaign is SENT, FAILED or BOUNCED
AllRecipientsTerminal(c) ==
  /\ \A e \in ListEmails(c) : RowsOf(c, e) # {}
  /\ \A i \in RowsOfCampaign(c) : Row(i).status \in {"SENT", "FAILED", "BOUNCED"}

\* C23: a campaign is set to SENT only when every valid recipient of its list has an
\* attempt in a terminal state, whatever the interleaving of a dispatch pass with the
\* metrics sweep and the stall sweep.
C23_SentOnlyWhenAllTerminal ==
  [][\A c \in Campaigns :
       (campaign[c].status # "SENT" /\ campaign'[c].status = "SENT")
         => AllRecipientsTerminal(c)]_vars

\* the step hands the message of recipient e to the provider in callback p's pass
IssuesSend(p, e) == sendSt'[p][e].pc = "sending" /\ sendSt[p][e].pc # "sending"

\* C24: a re-dispatch started by stall recovery issues no provider send for a recipient
\* whose attempt is already SENT.
C24_StallRedispatchSkipsSent ==
  [][\A p \in Procs, e \in Emails :
       (proc[p].origin = "stall" /\ IssuesSend(p, e))
         => LET i == sendSt'[p][e].row
            IN sends[i.c][i.e] = <<>> \/ Row(i).status # "SENT"]_vars

\* the callbacks whose dispatch pass (processCampaignEmailsDirectly) of campaign c is
\* in progress: between the bulk job upsert and the end of the last batch
PassesInProgress(c) ==
  {p \in Procs : proc[p].camp = c /\ proc[p].pc \in {"upsert", "batch"}
                   /\ proc[p].origin \in {"claim", "stall"}}

\* C25: at most one dispatch pass is in progress for a campaign at any time: the stall
\* sweep starts no re-dispatch while the claim-time pass or an earlier re-dispatch runs.
C25_OnePassPerCampaign ==
  \A c \in Campaigns : \A p, q \in PassesInProgress(c) :
     proc[p].origin = "stall" => p = q

\* the attempt has used up its retries: FAILED with retries at MAX_RETRY_ATTEMPTS
Exhausted(i) == Row(i).status = "FAILED" /\ Row(i).retries = MAX_RETRY_ATTEMPTS

\* the step hands the message of the attempt i to the provider
IssuesSendOf(i) ==
  \E p \in Procs, e \in Emails : IssuesSend(p, e) /\ sendSt'[p][e].row = i

\* C26: an attempt that is FAILED with retry count 3 stays FAILED: no monitor component
\* (retry sweep, stall recovery) sends it again or changes its status.
C26_ExhaustedStaysFailed ==
  [][\A i \in AllRows :
       Exhausted(i) => /\ sends'[i.c][i.e][i.k].status = "FAILED"
                       /\ ~IssuesSendOf(i)]_vars

\* the step writes the outcome of the provider call of recipient e in callback p's call
\* of sendSingleEmail
SendSettles(p, e) ==
  sendSt[p][e].pc = "sending" /\ sendSt'[p][e].pc \in {"incOk", "incFail"}

\* C27: a re-dispatch by the retry sweep raises the attempt's retry count by exactly one,
\* whether the re-send succeeds or fails.
C27_RetryIncrementsByOne ==
  [][\A p \in Procs, e \in Emails :
       (proc[p].origin = "retry" /\ SendSettles(p, e))
         => LET i == sendSt[p][e].row
            IN sends'[i.c][i.e][i.k].retries = Row(i).retries + 1]_vars

\* the status changes the lifecycle of an attempt allows; any status may be reset to PENDING
LifecycleChanges ==
  {<<"PENDING", "SENT">>, <<"PENDING", "FAILED">>, <<"FAILED", "RETRYING">>,
   <<"RETRYING", "SENT">>, <<"RETRYING", "FAILED">>}

\* C28: every status change of an attempt is PENDING->SENT, PENDING->FAILED,
\* FAILED->RETRYING, RETRYING->SENT, RETRYING->FAILED or a reset to PENDING; in
\* particular a SENT attempt never becomes FAILED.
C28_StatusChangesFollowLifecycle ==
  [][\A i \in AllRows :
       LET old == Row(i).status
           new == sends'[i.c][i.e][i.k].status
       IN old # new => (new = "PENDING" \/ <<old, new>> \in LifecycleChanges)]_vars

\* C29: when a dispatch finds an existing attempt of (campaign, recipient), the row has
\* been reset (status PENDING, retry count 0) by the time the message goes to the provider.
C29_FoundRowResetBeforeSend ==
  [][\A p \in Procs, e \in Emails :
       IssuesSend(p, e)
         => LET i == sendSt'[p][e].row
            IN i \in AllRows
                 => /\ sends'[i.c][i.e][i.k].status = "PENDING"
                    /\ sends'[i.c][i.e][i.k].retries = 0]_vars

\* the step is the retry sweep's call of sendSingleEmail for the next row of its loop
RetryDispatches(p) == proc[p].pc = "retry" /\ proc'[p].pc = "retrySend"

\* C30: the retry sweep re-dispatches an attempt only if it is FAILED and at least
\* 15 minutes * 2^retries have passed since its last update: never an attempt that is
\* PENDING, RETRYING or SENT, nor one whose backoff has not elapsed.
C30_RetrySweepSendsDueFailedOnly ==
  [][\A p \in Procs :
       RetryDispatches(p)
         => LET i == Head(proc[p].queue).row
            IN /\ Row(i).status = "FAILED"
               /\ now - Row(i).updatedAt >= Pow2(Row(i).retries) * RETRY_DELAY_BASE]_vars

\* the ids the emailSend rows of a list of OpsEmails addresses may take
RowIds == {RowId(c, e, k) : c \in Campaigns, e \in 1..OpsEmails, k \in 1..MaxDup}

\* the status of the row with id i, which the store may not hold yet
StatusOf(i) == IF i \in AllRows THEN Row(i).status ELSE "none"

\* the attempt is FAILED and its backoff, 2^retries * 15 minutes from its last update,
\* has elapsed
BackoffOverFor(i) ==
  /\ i \in AllRows
  /\ Row(i).status = "FAILED"
  /\ BackoffElapsed(RowItem(i), now)

\* the same, for an attempt the retry sweep's query selects
DueForRetry(i) == BackoffOverFor(i) /\ IsRetryCandidate(i)

\* the retry sweep has called sendSingleEmail for the attempt
SweepSends(i) ==
  \E p \in FastProcs :
    proc[p].pc = "retrySend" /\ sendSt[p][i.e].pc = "sending" /\ sendSt[p][i.e].row = i

\* an attempt that is RETRYING and stale leaves RETRYING: the cleanup sweep sets it FAILED
\* unless the worker takes its job first
StaleRetryingEnds ==
  \A i \in RowIds :
    (i \in AllRows /\ IsStaleRetrying(i)) ~> (StatusOf(i) # "RETRYING")

\* C31 as stated: an attempt RETRYING for 10 minutes or more is eventually set FAILED by
\* the cleanup sweep, and after that the retry sweep selects it again once its backoff
\* has elapsed, whatever its retry count.
C31_StaleRetryingReentersSweep ==
  /\ StaleRetryingEnds
  /\ \A i \in RowIds :
       BackoffOverFor(i) ~> (SweepSends(i) \/ ~BackoffOverFor(i))

\* C31, amended: an attempt RETRYING for 10 minutes or more is eventually set FAILED by
\* the cleanup sweep, and after that the retry sweep selects it again once its backoff
\* has elapsed if its retry count is below MAX_RETRY_ATTEMPTS.
C31_StaleRetryingReentersBelowMax ==
  /\ StaleRetryingEnds
  /\ \A i \in RowIds :
       DueForRetry(i) ~> (SweepSends(i) \/ ~DueForRetry(i))

\* C31, its case: the retry sweep is sending again an attempt that the cleanup sweep set
\* FAILED: its retryFailedEmails job still waits in the queue, untouched by the worker.
C31_CleanedUpAndResent ==
  \E i \in RowIds :
    /\ SweepSends(i)
    /\ Row(i).status = "FAILED" /\ Row(i).retries = 2
    /\ worker.pc = "idle"
    /\ [c |-> i.c, e |-> i.e, left |-> JOB_ATTEMPTS] \in jobs

\* the calls of sendSingleEmail that callback p has started and that have not settled
InFlight(p) == {e \in Emails : sendSt[p][e].pc \notin {"none", "done"}}

\* the calls that callback p's dispatch pass starts in the step
StartedNow(p) ==
  {e \in Emails : /\ proc'[p].pc = "batch"
                  /\ sendSt[p][e].pc \in {"none", "done"}
                  /\ sendSt'[p][e].pc \notin {"none", "done"}}

\* C32: within one dispatch pass no send of the next batch starts before every send of
\* the batch before has settled, and at most BATCH_SIZE sends are in flight, whatever
\* the number of recipients.
C32_BatchesSequentialAndBounded ==
  [][\A p \in Procs :
       StartedNow(p) # {}
         => /\ InFlight(p) = {}
            /\ Cardinality(StartedNow(p)) <= BATCH_SIZE
            /\ \A e \in StartedNow(p), f \in ListEmails(proc'[p].camp) :
                 (f < e /\ f \notin StartedNow(p)) => Dispatched(proc'[p].camp, f)]_vars

\* C32, its case: the second batch of a list of MaxEmails addresses is in flight after
\* every send of the first batch has settled, and a full batch was in flight before.
C32_SecondBatchInFlight ==
  \E p \in Procs :
    /\ proc[p].pc = "batch" /\ proc[p].batch = 1
    /\ list[proc[p].camp] = MaxEmails
    /\ InFlight(p) = BatchEmails(proc[p].camp, 1)
    /\ \A e \in BatchEmails(proc[p].camp, 0) : Dispatched(proc[p].camp, e)

\* C33: a claimed campaign goes from SENDING to FAILED only if the dispatch pass threw
\* before any attempt was created: a campaign with an attempt is never marked FAILED.
C33_FailedOnlyBeforeFirstAttempt ==
  [][\A c \in Campaigns :
       (campaign[c].status = "SENDING" /\ campaign'[c].status = "FAILED")
         => RowsOfCampaign(c) = {}]_vars

\* the BulkJob of the campaign has missed a counter update: every recipient has its
\* outcome, nothing is in flight, and processedEmails is short of totalEmails
CounterUpdateLost(c) ==
  /\ campaign[c].status = "SENDING"
  /\ AllRecipientsTerminal(c)
  /\ \A p \in Procs : InFlight(p) = {} /\ proc[p].pc \notin {"upsert", "batch"}
  /\ bulkJob[c].exists /\ bulkJob[c].processedEmails < bulkJob[c].totalEmails

\* C34: when a BulkJob counter update has failed while every attempt of the campaign has
\* reached a terminal state, the campaign is still eventually marked SENT.
C34_LostCounterStillCompletes ==
  \A c \in Campaigns : CounterUpdateLost(c) ~> (campaign[c].status = "SENT")

\* C34, its case: the metrics sweep has marked SENT a campaign whose BulkJob never
\* completed because a counter update was lost.
C34_SentFromPersistedState ==
  \E c \in Campaigns :
    /\ campaign[c].status = "SENT"
    /\ AllRecipientsTerminal(c)
    /\ bulkJob[c].exists /\ bulkJob[c].status = "processing"
    /\ bulkJob[c].processedEmails < bulkJob[c].totalEmails
    /\ \A p \in Procs : proc[p].pc = "idle"

\* C35: with both cadences firing, callbacks running on and time passing, a campaign
\* that is SENDING, claimed early enough for the stall threshold to pass on the clock,
\* does not stay SENDING: it becomes SENT or FAILED, also after a restart in the middle
\* of its dispatch and also when every send fails
HasClockRoom(c) ==
  /\ campaign[c].sentAt # Null
  /\ campaign[c].sentAt + STALL_MINUTES <= MaxLongTime
C35_SendingEventuallyEnds ==
  \A c \in Campaigns :
    (campaign[c].status = "SENDING" /\ HasClockRoom(c))
      ~> (campaign[c].status \in {"SENT", "FAILED"})
\* a campaign whose dispatch a restart interrupted is SENT
C35_HealedAfterRestart ==
  \E c \in Campaigns : hist.restarts > 0 /\ campaign[c].status = "SENT"

\* C36: when the dispatch pass that a claim started returns without throwing, the
\* campaign is SENT and its BulkJob is completed, for every number of valid recipients,
\* zero included
PassReturns(p) ==
  /\ proc[p].pc \in {"upsert", "batch"}
  /\ hist'.passes[proc[p].camp] = hist.passes[proc[p].camp] + 1
C36_ReturnedPassMeansSent ==
  [][\A p \in Procs :
       (PassReturns(p) /\ proc[p].origin = "claim")
         => /\ campaign'[proc[p].camp].status = "SENT"
            /\ bulkJob'[proc[p].camp].status = "completed"]_vars

\* C37: in every reachable state a BulkJob has processedEmails <= totalEmails, also
\* when dispatch passes for the same campaign overlap or are repeated
C37_ProcessedWithinTotal ==
  \A c \in Campaigns :
    bulkJob[c].exists => bulkJob[c].processedEmails <= bulkJob[c].totalEmails

\* C38: whenever a send on the SMTP adapter ends in failure after connection errors,
\* the adapter has made its three attempts and is in its cooling period when the
\* failure reaches the caller
ConnectionFailureReported(s) ==
  /\ adapter'.call[s].pc = "idle"
  /\ \/ adapter.call[s].pc = "mail" /\ adapter'.call[s].out = "failed"
     \/ adapter.call[s].pc = "recreate" /\ adapter'.call[s].out = "error"
C38_FailureAfterThreeAttemptsAndCooling ==
  [][\A s \in Senders :
       ConnectionFailureReported(s)
         => /\ adapter.call[s].attempt = MAX_RETRIES
            /\ adapter'.coolingUntil # Null /\ adapter'.coolingUntil > now']_vars

\* C39: after a send dispatched by the monitor has exhausted its connection retries and
\* activated cooling, every later send the monitor dispatches for the domain within the
\* cooling window fails at once with the cooling error, without a call of sendMail
MonitorSendStarts(s) ==
  /\ adapter'.call[s].calls = adapter.call[s].calls + 1
  /\ adapter'.call[s].valid
InCoolingWindow == hist'.cooling # Null /\ hist'.cooling > now
C39_MonitorSendsFailFastWhileCooling ==
  [][\A s \in Senders :
       (MonitorSendStarts(s) /\ InCoolingWindow)
         => /\ adapter'.call[s].out = "cooling"
            /\ adapter'.call[s].pc = "idle"]_vars

====
